---- MODULE Spec2Model ----
(***************************************************************************)
(* A model of ruscii: the keyboard engine (src/src/keyboard.rs), the grid  *)
(* and the diff pass (src/src/terminal.rs) and the frame loop              *)
(* (src/src/app.rs).  Each subsystem has its own specification; the        *)
(* variables of the other subsystems stay at their initial values.         *)
(***************************************************************************)
EXTENDS Integers, Sequences, FiniteSets, TLC

VARIABLES
    \* ---- keyboard.rs: environment
    now,                  \* the monotonic clock read by Instant::now(), in ms
    device_keys,          \* keys held OS-wide, what device.get_keys() returns
    term_input,           \* the terminal has unread input (ct::event::poll)
    \* ---- keyboard.rs: event_thread
    last_device_state,
    \* ---- keyboard.rs: channels
    acc_channel,          \* acc_sender -> acc_receiver
    event_channel,        \* event_sender (both clones) -> event_receiver
    \* ---- keyboard.rs: acc_thread
    acc_pc,
    event_accumulator,
    last_input_timestamp,
    \* ---- keyboard.rs: struct Keyboard
    thread_running,       \* the shared flag both observers loop on
    ev_pc,                \* where the event_thread is
    drop_pc,              \* where Drop for Keyboard is
    state,
    last_key_events,
    last_key_stamp,
    \* ---- keyboard.rs: history (not read by any modelled code)
    kb_hist,              \* of the observers and the correlation stage
    cs_hist,              \* of the calls of consume_key_events
    \* ---- terminal.rs
    surface,              \* Window::surface: data, dimension, default_element
    srf_panic,            \* an index into surface.data was out of range
    win_hist,             \* history of the Window operations
    reader,               \* Window::reader: "Some" or "None"
    tty,                  \* the terminal's modes: raw, alternate screen, cursor
    \* ---- app.rs
    app_pc,               \* where App::run is
    config_fps,           \* Config::fps
    expected_duration,    \* the frame budget, in ns
    running,              \* State::running
    step,                 \* State::step
    dt,                   \* State::dt, in ns
    clock,                \* what Instant::now() reads in App::run, in ns
    frame_start,          \* the local `now` of the loop body
    callback,             \* frame_action: the steps at which it stops, panics
    app_hist,             \* history of App::run
    \* ---- drawing.rs
    canvas,               \* the Canvas a Pencil draws on: data, dimension
    pen,                  \* struct Pencil: origin, foreground, background, style
    pen_hist,             \* history of the Pencil operations
    \* ---- spatial.rs
    vec2,                 \* a Vec2
    direction,            \* a Direction, or the Err of a conversion
    sp_hist               \* history of the conversions

sd_vars == <<thread_running, ev_pc, drop_pc>>

kb_vars == <<now, device_keys, term_input, last_device_state, acc_channel,
             event_channel, acc_pc, event_accumulator, last_input_timestamp,
             state, last_key_events, last_key_stamp, kb_hist, cs_hist, sd_vars>>

term_vars == <<surface, srf_panic, win_hist>>

app_vars == <<reader, tty, app_pc, config_fps, expected_duration, running, step, dt,
              clock, frame_start, callback, app_hist>>

draw_vars == <<canvas, pen, pen_hist, vec2, direction, sp_hist>>

vars == <<kb_vars, term_vars, app_vars, draw_vars>>

(***************************************************************************)
(* Helpers                                                                 *)
(***************************************************************************)
Max(a, b) == IF a >= b THEN a ELSE b

Range(s) == {s[i] : i \in 1..Len(s)}

RECURSIVE SeqOfSet(_, _)
\* the members of set S in the order of the sequence `order`
SeqOfSet(S, order) ==
    IF order = <<>> THEN <<>>
    ELSE IF Head(order) \in S
         THEN <<Head(order)>> \o SeqOfSet(S, Tail(order))
         ELSE SeqOfSet(S, Tail(order))

(***************************************************************************)
(* keyboard.rs                                                             *)
(***************************************************************************)
KEY_EVENT_FOCUS_DELAY_MS == 20

\* bounds of the keyboard model
MaxTransitions == 4      \* physical key transitions
MaxInputs == 1           \* terminal input events
MaxTime == 60            \* the clock stops here
MaxStream == 4           \* signals sent on the public stream (SpecConsume)

\* dq::Keycode values in the order get_keys() lists them; LShift stands for
\* the keycodes transform_device_key has no arm for
KeycodeOrder == <<"A", "B", "C", "LShift">>

\* the keys the user touches in SpecKeyboard
Keycodes == {"A", "LShift"}

\* the clock advances in steps of one correlation window
TickChoices == {KEY_EVENT_FOCUS_DELAY_MS}

transform_device_key(device_key) ==
    CASE device_key = "A" -> "A"
      [] device_key = "B" -> "B"
      [] device_key = "C" -> "C"
      [] OTHER -> "Unknown"

Keys == {transform_device_key(kc) : kc \in Range(KeycodeOrder)}

MappedKeys == Keys \ {"Unknown"}

\* A KeyEvent in flight.  kind and key are the KeyEvent; obs is the number of
\* the device observation that produced it and press the observation number
\* of the press it belongs to: history, never read by the modelled code.
Signal(kind, key, obs, press) ==
    [kind |-> kind, key |-> key, obs |-> obs, press |-> press]

KeyEventOf(sig) == <<sig.kind, sig.key>>

KeyEventsOf(sigs) == [i \in 1..Len(sigs) |-> KeyEventOf(sigs[i])]

\* ---- history bookkeeping -------------------------------------------------
\* kb_hist.obs[n]: the n-th signal derived by the device observer
ObsRecord(kind, key, press) ==
    [kind |-> kind, key |-> key, press |-> press,
     fate |-> "sent",     \* sent, pending, dropped or forwarded
     arrival |-> 0,       \* the instant it was pushed on the pending list
     delivered |-> 0]     \* how many times it appeared in a consumed batch

InitHist ==
    [obs |-> <<>>,            \* every derived signal
     pressOf |-> [k \in Keys |-> 0],   \* last observed press of each key
     focus_stamps |-> {},     \* every instant process_input_timestamp returned
     transitions |-> 0,       \* physical key transitions so far
     inputs |-> 0,            \* terminal input events so far
     insertedBy |-> [k \in Keys |-> 0], \* the press that put k in the down-map
     upAfterAccept |-> [k \in Keys |-> FALSE]] \* k went up after its press was forwarded

InitConsumeHist ==
    [sent |-> 0,              \* signals sent on the public stream so far
     quietCalls |-> 0,        \* consecutive consume calls with no send between, capped at 2
     drained |-> <<>>,        \* what the last consume drained
     stateBefore |-> << >>,   \* the down-map before the last consume
     log |-> <<>>,            \* everything drained so far, in stream order
     heldOrder |-> <<>>]      \* keys of the down-map in insertion order

SetFate(obs, ids, fate) ==
    [n \in 1..Len(obs) |-> IF n \in ids THEN [obs[n] EXCEPT !.fate = fate] ELSE obs[n]]

\* the event_thread has seen the hold of kc and the acc_thread has forwarded
\* its Pressed to the public stream
PressAccepted(kc) ==
    LET key == transform_device_key(kc)
    IN  /\ kc \in last_device_state
        /\ kb_hist.pressOf[key] /= 0
        /\ kb_hist.obs[kb_hist.pressOf[key]].fate = "forwarded"

\* ---- environment ---------------------------------------------------------
\* a key goes down somewhere on the machine
KeyDown(kc) ==
    /\ kc \notin device_keys
    /\ kb_hist.transitions < MaxTransitions
    /\ device_keys' = device_keys \cup {kc}
    /\ kb_hist' = [kb_hist EXCEPT !.transitions = @ + 1,
                                  !.upAfterAccept[transform_device_key(kc)] = FALSE]
    /\ UNCHANGED <<draw_vars, term_vars, app_vars, sd_vars, now, term_input, last_device_state, acc_channel, event_channel,
                   acc_pc, event_accumulator, last_input_timestamp, state,
                   last_key_events, last_key_stamp, cs_hist>>

KeyUp(kc) ==
    /\ kc \in device_keys
    /\ kb_hist.transitions < MaxTransitions
    /\ device_keys' = device_keys \ {kc}
    /\ kb_hist' = [kb_hist EXCEPT !.transitions = @ + 1,
                                  !.upAfterAccept[transform_device_key(kc)] =
                                      PressAccepted(kc)]
    /\ UNCHANGED <<draw_vars, term_vars, app_vars, sd_vars, now, term_input, last_device_state, acc_channel, event_channel,
                   acc_pc, event_accumulator, last_input_timestamp, state,
                   last_key_events, last_key_stamp, cs_hist>>

\* the terminal delivers input to this process (it has the focus)
TermInput ==
    /\ ~term_input
    /\ kb_hist.inputs < MaxInputs
    /\ term_input' = TRUE
    /\ kb_hist' = [kb_hist EXCEPT !.inputs = @ + 1]
    /\ UNCHANGED <<draw_vars, term_vars, app_vars, sd_vars, now, device_keys, last_device_state, acc_channel, event_channel,
                   acc_pc, event_accumulator, last_input_timestamp, state,
                   last_key_events, last_key_stamp, cs_hist>>

Tick(d) ==
    /\ now + d <= MaxTime
    /\ now' = now + d
    /\ UNCHANGED <<draw_vars, term_vars, app_vars, sd_vars, device_keys, term_input, last_device_state, acc_channel,
                   event_channel, acc_pc, event_accumulator, last_input_timestamp,
                   state, last_key_events, last_key_stamp, kb_hist, cs_hist>>

\* ---- event_thread --------------------------------------------------------
\* the keys process_pressed_event sends on its sender, in order
process_pressed_event(new_state, last_state) ==
    LET pressed == SeqOfSet(new_state \ last_state, KeycodeOrder)
        keys == [i \in 1..Len(pressed) |-> transform_device_key(pressed[i])]
    IN  SelectSeq(keys, LAMBDA key : key /= "Unknown")

\* the keys process_released_event sends on its sender, in order
process_released_event(new_state, last_state) ==
    LET released == SeqOfSet(last_state \ new_state, KeycodeOrder)
        keys == [i \in 1..Len(released) |-> transform_device_key(released[i])]
    IN  SelectSeq(keys, LAMBDA key : key /= "Unknown")

\* the body of the event_thread loop, both sends succeeding
event_thread_body ==
    LET new_device_state == device_keys
        P == process_pressed_event(new_device_state, last_device_state)
        R == process_released_event(new_device_state, last_device_state)
        base == Len(kb_hist.obs)
        psigs == [i \in 1..Len(P) |-> Signal("Pressed", P[i], base + i, base + i)]
        rsigs == [i \in 1..Len(R) |->
                    Signal("Released", R[i], base + Len(P) + i, kb_hist.pressOf[R[i]])]
        toAcc == psigs      \* process_pressed_event(&acc_sender, ...)
        toEvent == rsigs    \* process_released_event(&released_event_sender, ...)
    IN  /\ acc_channel' = acc_channel \o toAcc
        /\ event_channel' = event_channel \o toEvent
        /\ last_device_state' = new_device_state
        /\ kb_hist' = [kb_hist EXCEPT
              !.obs = @ \o [i \in 1..Len(P) |-> ObsRecord("Pressed", P[i], base + i)]
                        \o [i \in 1..Len(R) |->
                              ObsRecord("Released", R[i], kb_hist.pressOf[R[i]])],
              !.pressOf = [k \in Keys |->
                             IF \E i \in 1..Len(P) : P[i] = k
                             THEN base + (CHOOSE i \in 1..Len(P) : P[i] = k)
                             ELSE @[k]]]

\* one iteration of the event_thread loop while the engine lives
\* an event thread that also empties the per-frame batch
EventThreadIterateClearsBatch ==
    /\ event_thread_body
    /\ last_key_events' = <<>>
    /\ UNCHANGED <<draw_vars, term_vars, app_vars, sd_vars, now, device_keys, term_input, acc_pc,
                   event_accumulator, last_input_timestamp, state,
                   last_key_stamp, cs_hist>>

EventThreadIterate ==
    /\ event_thread_body
    /\ UNCHANGED <<draw_vars, term_vars, app_vars, sd_vars, now, device_keys, term_input, acc_pc,
                   event_accumulator, last_input_timestamp, state, last_key_events,
                   last_key_stamp, cs_hist>>

\* ---- acc_thread ----------------------------------------------------------
\* process_input_timestamp: Some(Instant::now()) when input was read
process_input_timestamp(input_received, t) ==
    IF input_received THEN <<"Some", t>> ELSE <<"None", 0>>

AccPoll ==
    /\ acc_pc = "poll"
    /\ LET r == process_input_timestamp(term_input, now)
       IN  /\ last_input_timestamp' = IF r[1] = "Some" THEN r[2] ELSE last_input_timestamp
           /\ kb_hist' = [kb_hist EXCEPT !.focus_stamps =
                             IF r[1] = "Some" THEN @ \cup {r[2]} ELSE @]
    /\ term_input' = FALSE
    /\ acc_pc' = "retain"
    /\ UNCHANGED <<draw_vars, term_vars, app_vars, sd_vars, now, device_keys, last_device_state, acc_channel, event_channel,
                   event_accumulator, state, last_key_events, last_key_stamp, cs_hist>>

\* a retain without the test of line 236
retain_never_expires(instant, t) == FALSE

\* line 236: the pending signal is too old
retain_expired(instant, t) == t - instant > KEY_EVENT_FOCUS_DELAY_MS

\* lines 240-252: the two checked_duration_since tests
retain_correlated(instant, last) ==
    \/ instant >= last /\ instant - last <= KEY_EVENT_FOCUS_DELAY_MS
    \/ last >= instant /\ last - instant <= KEY_EVENT_FOCUS_DELAY_MS

\* the closure of event_accumulator.retain sends the signal
retain_sends(e, t, last) ==
    /\ ~retain_expired(e.instant, t)
    /\ retain_correlated(e.instant, last)

\* the closure of event_accumulator.retain returns true
retain_keeps(e, t, last) ==
    /\ ~retain_expired(e.instant, t)
    /\ ~retain_correlated(e.instant, last)

AccRetain ==
    /\ acc_pc = "retain"
    /\ LET sent == SelectSeq(event_accumulator,
                             LAMBDA e : retain_sends(e, now, last_input_timestamp))
           kept == SelectSeq(event_accumulator,
                             LAMBDA e : retain_keeps(e, now, last_input_timestamp))
           sentIds == {sent[i].sig.obs : i \in 1..Len(sent)}
           keptIds == {kept[i].sig.obs : i \in 1..Len(kept)}
           allIds == {event_accumulator[i].sig.obs : i \in 1..Len(event_accumulator)}
       IN  /\ event_channel' = event_channel \o [i \in 1..Len(sent) |-> sent[i].sig]
           /\ event_accumulator' = kept
           /\ kb_hist' = [kb_hist EXCEPT
                 !.obs = SetFate(SetFate(@, sentIds, "forwarded"),
                                 allIds \ (sentIds \cup keptIds), "dropped")]
    /\ acc_pc' = "recv"
    /\ UNCHANGED <<draw_vars, term_vars, app_vars, sd_vars, now, device_keys, term_input, last_device_state, acc_channel,
                   last_input_timestamp, state, last_key_events, last_key_stamp, cs_hist>>

\* acc_receiver.recv_timeout: a queued signal is pushed with Instant::now(),
\* otherwise the call times out
AccRecv ==
    /\ acc_pc = "recv"
    /\ IF acc_channel /= <<>>
       THEN /\ event_accumulator' =
                   Append(event_accumulator, [sig |-> Head(acc_channel), instant |-> now])
            /\ acc_channel' = Tail(acc_channel)
            /\ kb_hist' = [kb_hist EXCEPT
                  !.obs[Head(acc_channel).obs] = [@ EXCEPT !.fate = "pending", !.arrival = now]]
       ELSE UNCHANGED <<event_accumulator, acc_channel, kb_hist>>
    /\ acc_pc' = "poll"
    /\ UNCHANGED <<draw_vars, term_vars, app_vars, sd_vars, now, device_keys, term_input, last_device_state, event_channel,
                   last_input_timestamp, state, last_key_events, last_key_stamp, cs_hist>>

\* ---- Keyboard::consume_key_events ----------------------------------------
\* a drain that takes one queued signal per call (try_recv for try_iter)
try_iter_count_one(channel) == IF channel = <<>> THEN 0 ELSE 1

\* self.event_receiver.try_iter().collect(): how many queued signals are taken
try_iter_count(channel) == Len(channel)

\* the Pressed arm without the `!self.state.contains_key(&key)` test
apply_pressed_repeat(acc, event) ==
    IF event.kind = "Pressed"
    THEN [state |-> [k \in DOMAIN acc.state \cup {event.key} |->
                        IF k = event.key THEN acc.stamp ELSE acc.state[k]],
          batch |-> Append(acc.batch, event),
          stamp |-> acc.stamp + 1]
    ELSE acc

\* the Pressed arm without `self.last_key_stamp += 1`
apply_pressed_same_stamp(acc, event) ==
    IF event.kind = "Pressed" /\ event.key \notin DOMAIN acc.state
    THEN [state |-> acc.state @@ (event.key :> acc.stamp),
          batch |-> Append(acc.batch, event),
          stamp |-> acc.stamp]
    ELSE acc

\* the Pressed arm without `self.state.insert(key, stamp)`
apply_pressed_no_insert(acc, event) ==
    IF event.kind = "Pressed" /\ event.key \notin DOMAIN acc.state
    THEN [acc EXCEPT !.batch = Append(acc.batch, event), !.stamp = @ + 1]
    ELSE acc

\* the Pressed arm: lines 313-319
apply_pressed(acc, event) ==
    IF event.kind = "Pressed" /\ event.key \notin DOMAIN acc.state
    THEN [state |-> acc.state @@ (event.key :> acc.stamp),
          batch |-> Append(acc.batch, event),
          stamp |-> acc.stamp + 1]
    ELSE acc

\* the Released arm without `self.state.remove(&key)`
apply_released_no_remove(acc, event) ==
    IF event.kind = "Released" /\ event.key \in DOMAIN acc.state
    THEN [acc EXCEPT !.batch = Append(acc.batch, event)]
    ELSE acc

\* the Released arm: lines 323-328
apply_released(acc, event) ==
    IF event.kind = "Released" /\ event.key \in DOMAIN acc.state
    THEN [state |-> [k \in DOMAIN acc.state \ {event.key} |-> acc.state[k]],
          batch |-> Append(acc.batch, event),
          stamp |-> acc.stamp]
    ELSE acc

RECURSIVE pressed_loop(_, _)
\* for event in &events { if let KeyEvent::Pressed ... }
pressed_loop(events, acc) ==
    IF events = <<>> THEN acc
    ELSE pressed_loop(Tail(events), apply_pressed(acc, Head(events)))

RECURSIVE released_loop(_, _)
\* for event in &events { if let KeyEvent::Released ... }
released_loop(events, acc) ==
    IF events = <<>> THEN acc
    ELSE released_loop(Tail(events), apply_released(acc, Head(events)))

RECURSIVE consume_loops_arrival_order(_, _)
\* one loop that applies every drained event in arrival order
consume_loops_arrival_order(events, acc) ==
    IF events = <<>> THEN acc
    ELSE consume_loops_arrival_order(
             Tail(events), apply_released(apply_pressed(acc, Head(events)), Head(events)))

\* the two loops in the other order: the Released arm first
consume_loops_released_first(events, acc) ==
    pressed_loop(events, released_loop(events, acc))

\* the two loops of consume_key_events over the drained events
consume_loops(events, acc) == released_loop(events, pressed_loop(events, acc))

RECURSIVE sort_by_stamp(_)
\* keys.sort_by(stamp): the keys of a down-map, smallest stamp first
sort_by_stamp(st) ==
    IF DOMAIN st = {} THEN <<>>
    ELSE LET k == CHOOSE k \in DOMAIN st : \A j \in DOMAIN st : st[k] <= st[j]
         IN  <<k>> \o sort_by_stamp([j \in DOMAIN st \ {k} |-> st[j]])

get_keys_down == sort_by_stamp(state)

\* what Keyboard::last_key_events() returns
last_key_events_view == KeyEventsOf(last_key_events)

\* a drain that waits for a first signal (recv for try_iter)
consume_key_events_waiting ==
    LET n == try_iter_count(event_channel)
        events == SubSeq(event_channel, 1, n)
        r == consume_loops(events, [state |-> state, batch |-> <<>>,
                                    stamp |-> last_key_stamp])
    IN  /\ event_channel /= <<>>
        /\ event_channel' = SubSeq(event_channel, n + 1, Len(event_channel))
        /\ state' = r.state
        /\ last_key_events' = r.batch
        /\ last_key_stamp' = r.stamp

\* the assignments of consume_key_events(): the drain and the two loops
consume_key_events ==
    LET n == try_iter_count(event_channel)
        events == SubSeq(event_channel, 1, n)
        r == consume_loops(events, [state |-> state, batch |-> <<>>,
                                    stamp |-> last_key_stamp])
    IN  /\ event_channel' = SubSeq(event_channel, n + 1, Len(event_channel))
        /\ state' = r.state
        /\ last_key_events' = r.batch
        /\ last_key_stamp' = r.stamp

\* consume_key_events called on the engine of SpecKeyboard
KbConsume ==
    /\ consume_key_events
    /\ LET batch == last_key_events'
           batchIds == {batch[i].obs : i \in 1..Len(batch)}
       IN  kb_hist' = [kb_hist EXCEPT
              !.obs = [i \in 1..Len(@) |->
                         IF i \in batchIds
                         THEN [@[i] EXCEPT !.delivered = @ + 1]
                         ELSE @[i]],
              !.insertedBy = [k \in Keys |->
                         IF \E e \in Range(batch) : e.kind = "Pressed" /\ e.key = k
                         THEN (CHOOSE e \in Range(batch) :
                                  e.kind = "Pressed" /\ e.key = k).press
                         ELSE @[k]]]
    /\ UNCHANGED <<draw_vars, term_vars, app_vars, sd_vars, now, device_keys, term_input, last_device_state, acc_channel,
                   acc_pc, event_accumulator, last_input_timestamp, cs_hist>>

(***************************************************************************)
(* terminal.rs: VisualElement and Surface                                  *)
(***************************************************************************)
\* the number of values of a u16: dimensions, positions and the index
\* computed from them are 16-bit unsigned
U16_VALUES == 65536

\* Color::code
code(color) ==
    CASE color = "Black" -> 16
      [] color = "White" -> 231
      [] color = "Red" -> 196
      [] color = "Blue" -> 21

\* style_impl
style_impl(style) == IF style = "Plain" THEN "NoBold" ELSE "Bold"

\* VisualElement::new
VisualElementNew ==
    [style |-> "Plain", background |-> "Black", foreground |-> "White", value |-> " "]

\* dimension.0 * dimension.1 in u16: a release build wraps, a build with
\* overflow checks panics when the product does not fit
mul_overflows(a, b) == a * b >= U16_VALUES

mul_u16(a, b) == (a * b) % U16_VALUES

add_u16(a, b) == (a + b) % U16_VALUES

\* Surface::new, the product having wrapped where it does not fit
Surface_new(dimension, default_element) ==
    [data |-> [i \in 1..mul_u16(dimension[1], dimension[2]) |-> default_element],
     dimension |-> dimension,
     default_element |-> default_element]

\* history of the Window operations (not read by any modelled code)
InitWindowHist ==
    [lastOp |-> "new",        \* the operation that ran last
     queried |-> <<0, 0>>,    \* the size the last clear read
     reallocated |-> FALSE,   \* the last clear built a new Surface
     dirtyBefore |-> FALSE,   \* a cell differed from the default before it
     pos |-> <<0, 0>>,        \* the position of the last draw_element
     drawn |-> VisualElementNew, \* the element the last draw_element wrote
     before |-> <<>>,         \* surface.data before the last draw_element
     out |-> <<>>,            \* the commands flushed by the last update
     sink |-> <<>>,           \* the calls the last update made on self.target
     draws |-> 0,             \* draw_element calls since the last clear
     calls |-> 0,             \* calls of Window::open and Window::close
     tty_before |->           \* the terminal modes before the last open or close
         [raw |-> FALSE, alternate |-> FALSE, cursor_hidden |-> FALSE],
     close_from |-> "None",   \* the reader the last close found
     close_panicked |-> FALSE] \* the last close panicked

\* the terminal subsystem while another subsystem is being explored
TerminalIdle ==
    /\ surface = Surface_new(<<0, 0>>, VisualElementNew)
    /\ srf_panic = FALSE
    /\ win_hist = InitWindowHist

(***************************************************************************)
(* app.rs and Window::open, Window::close: the state before App::run       *)
(***************************************************************************)
\* the terminal as the shell left it
TtyOfShell == [raw |-> FALSE, alternate |-> FALSE, cursor_hidden |-> FALSE]

\* history of App::run (not read by any modelled code)
InitAppHist ==
    [calls |-> 0,           \* invocations of frame_action
     opened |-> FALSE,      \* Window::open has run
     failed |-> FALSE,      \* frame_action has panicked
     closes |-> 0,          \* completed calls of Window::close
     cb_end |-> 0,          \* the clock when the last invocation returned
     sleeps |-> 0,          \* thread::sleep calls since the last invocation
     slept |-> 0,           \* what they were asked to sleep, in ns
     iter |-> <<>>,         \* the steps of the current iteration, in order
     iters |-> 0,           \* iterations begun
     prev_start |-> 0,      \* `now` of the iteration before the current one
     consume_step |-> 0,    \* State::step at the last consume_key_events
     consumed |-> <<>>,     \* the batch that consume_key_events left
     cb_step |-> 0,         \* State::step as the last invocation read it
     cb_clean |-> TRUE,     \* the grid held only default cells when it began
     stop_call |-> 0,       \* the invocation that called State::stop, or 0
     presents |-> 0,        \* completed calls of Window::draw
     last_sleep |-> 0]      \* what the last iteration slept, in ns

\* App::config with frame rate fps and State::default, before run is called
\* with frame_action
AppConfig(fps, frame_action) ==
    /\ reader = "None"
    /\ tty = TtyOfShell
    /\ app_pc = "start"
    /\ config_fps = fps
    /\ expected_duration = 0
    /\ running = FALSE
    /\ step = 0
    /\ dt = 0
    /\ clock = 0
    /\ frame_start = 0
    /\ callback = frame_action
    /\ app_hist = InitAppHist

\* the frame loop while another subsystem is being explored: an App of
\* Config::new whose run is not called
AppIdle == AppConfig(30, [stop_on |-> {}, panic_on |-> {}, draw_on |-> {}])

(***************************************************************************)
(* spatial.rs: Vec2 and Direction                                          *)
(***************************************************************************)
\* the largest i32, the type of Vec2::x and Vec2::y
I32_MAX == 2147483647

Vec2_xy(x, y) == [x |-> x, y |-> y]

Vec2_zero == Vec2_xy(0, 0)

Vec2_x(x) == Vec2_xy(x, 0)

Vec2_y(y) == Vec2_xy(0, y)

\* impl Add for Vec2
Vec2_add(self, other) == Vec2_xy(self.x + other.x, self.y + other.y)

\* impl Sub for Vec2
Vec2_sub(self, other) == Vec2_xy(self.x - other.x, self.y - other.y)

\* impl Neg for Vec2
Vec2_neg(self) == Vec2_xy(-self.x, -self.y)

\* enum Direction
Directions == {"Up", "Down", "Right", "Left", "None"}

\* impl From<Direction> for Vec2
Vec2_from(value) ==
    CASE value = "Up" -> Vec2_y(-1)
      [] value = "Down" -> Vec2_y(1)
      [] value = "Right" -> Vec2_x(1)
      [] value = "Left" -> Vec2_x(-1)
      [] value = "None" -> Vec2_zero

\* Ord::cmp of two i32
cmp(a, b) == IF a < b THEN "Less" ELSE IF a > b THEN "Greater" ELSE "Equal"

\* the Result of a conversion: Ok(Direction) or Err(TryFromVec2Error {value})
Ok(d) == [kind |-> "Ok", v |-> d]

Err(value) == [kind |-> "Err", v |-> value]

\* a conversion that reads the y axis upwards
Direction_try_from_y_up(value) ==
    LET ord == <<cmp(value.x, 0), cmp(value.y, 0)>>
    IN  CASE ord = <<"Less", "Equal">> -> Ok("Left")
          [] ord = <<"Greater", "Equal">> -> Ok("Right")
          [] ord = <<"Equal", "Greater">> -> Ok("Up")
          [] ord = <<"Equal", "Less">> -> Ok("Down")
          [] ord = <<"Equal", "Equal">> -> Ok("None")
          [] OTHER -> Err(value)

\* impl TryFrom<Vec2> for Direction
Direction_try_from(value) ==
    LET ord == <<cmp(value.x, 0), cmp(value.y, 0)>>
    IN  CASE ord = <<"Less", "Equal">> -> Ok("Left")
          [] ord = <<"Greater", "Equal">> -> Ok("Right")
          [] ord = <<"Equal", "Greater">> -> Ok("Down")
          [] ord = <<"Equal", "Less">> -> Ok("Up")
          [] ord = <<"Equal", "Equal">> -> Ok("None")
          [] OTHER -> Err(value)

InitSpatialHist ==
    [op |-> "none",           \* the conversion that ran last
     dir_in |-> "None",       \* the Direction the last Vec2::from took
     vec_in |-> Vec2_zero,    \* the Vec2 the last try_from took
     chained |-> FALSE]       \* the last try_from took the Vec2 of a from

\* no conversion under way
SpatialIdle ==
    /\ vec2 = Vec2_zero
    /\ direction = Ok("None")
    /\ sp_hist = InitSpatialHist

(***************************************************************************)
(* drawing.rs: Pencil, over the Canvas of terminal.rs                      *)
(***************************************************************************)
\* Canvas::new: the grid is a row-major array of dimension.x * dimension.y
\* cells, each the default element
Canvas_new(dimension, default_element) ==
    [data |-> [i \in 1..(dimension.x * dimension.y) |-> default_element],
     dimension |-> dimension,
     default_element |-> default_element]

\* Canvas::contains: the bounds check of the cell accessors
Canvas_contains(c, pos) ==
    /\ 0 <= pos.x /\ pos.x < c.dimension.x
    /\ 0 <= pos.y /\ pos.y < c.dimension.y

\* the place of cell pos in Canvas::data (sequences start at 1)
Canvas_index(c, pos) == pos.y * c.dimension.x + pos.x + 1

\* Pencil::new
Pencil_new(c) ==
    [origin |-> Vec2_zero,
     foreground |-> c.default_element.foreground,
     background |-> c.default_element.background,
     style |-> c.default_element.style]

\* a / b and a % b of two i32: the quotient is truncated towards zero and
\* the remainder has the sign of a; b = 0 panics and is decided by the caller
abs_i32(a) == IF a < 0 THEN -a ELSE a

div_i32(a, b) ==
    IF (a < 0) = (b < 0) THEN abs_i32(a) \div abs_i32(b)
    ELSE -(abs_i32(a) \div abs_i32(b))

rem_i32(a, b) == a - b * div_i32(a, b)

\* The receiver of a Pencil method is st = [canvas, pen, panic]: the Canvas
\* it borrows, its own fields, and whether the call has panicked.

\* Pencil::draw_element
Pencil_draw_element(st, position, value) ==
    IF Canvas_contains(st.canvas, position)
    THEN [st EXCEPT !.canvas.data[Canvas_index(st.canvas, position)] =
              [value |-> value,
               foreground |-> st.pen.foreground,
               background |-> st.pen.background,
               style |-> st.pen.style]]
    ELSE st

\* Pencil::set_origin
Pencil_set_origin(st, position) == [st EXCEPT !.pen.origin = position]

\* Pencil::move_origin
Pencil_move_origin(st, displacement) ==
    [st EXCEPT !.pen.origin = Vec2_add(@, displacement)]

\* Pencil::set_foreground
Pencil_set_foreground(st, color) == [st EXCEPT !.pen.foreground = color]

\* Pencil::draw_char
Pencil_draw_char(st, value, position) ==
    Pencil_draw_element(st, Vec2_add(st.pen.origin, position), value)

\* the loop of draw_text from its i-th character (i counts from 1 here,
\* enumerate() from 0); the first % of a width of 0 panics
RECURSIVE draw_text_loop(_, _, _, _, _)
draw_text_loop(st, text, position, width, i) ==
    IF i > Len(text) THEN st
    ELSE IF width = 0 THEN [st EXCEPT !.panic = TRUE]
    ELSE LET elem_pos == Vec2_add(Vec2_add(st.pen.origin, position), Vec2_x(i - 1))
             wrapped == Vec2_xy(rem_i32(elem_pos.x, width),
                                elem_pos.y + div_i32(elem_pos.x, width))
         IN  draw_text_loop(Pencil_draw_element(st, wrapped, text[i]),
                            text, position, width, i + 1)

\* Pencil::draw_text
Pencil_draw_text(st, text, position) ==
    draw_text_loop(st, text, position, st.canvas.dimension.x, 1)

\* the loop of draw_vline over i in 0..size
RECURSIVE draw_vline_loop(_, _, _, _, _)
draw_vline_loop(st, value, elem_pos, i, size) ==
    IF i >= size THEN st
    ELSE draw_vline_loop(Pencil_draw_element(st, Vec2_add(elem_pos, Vec2_y(i)), value),
                         value, elem_pos, i + 1, size)

\* Pencil::draw_vline; size.to_usize().unwrap() panics on a negative size
Pencil_draw_vline(st, value, position, size) ==
    IF size < 0 THEN [st EXCEPT !.panic = TRUE]
    ELSE draw_vline_loop(st, value, Vec2_add(st.pen.origin, position), 0, size)

\* the loop of draw_filled_rect over i in 0..dimension.x
RECURSIVE draw_filled_rect_loop(_, _, _, _, _)
draw_filled_rect_loop(st, fill, position, dimension, i) ==
    IF st.panic \/ i >= dimension.x THEN st
    ELSE draw_filled_rect_loop(
             Pencil_draw_vline(st, fill, Vec2_xy(position.x + i, position.y), dimension.y),
             fill, position, dimension, i + 1)

\* Pencil::draw_filled_rect
Pencil_draw_filled_rect(st, fill, position, dimension) ==
    LET drawn == draw_filled_rect_loop(Pencil_move_origin(st, position),
                                       fill, position, dimension, 0)
    IN  IF drawn.panic THEN drawn
        ELSE Pencil_move_origin(drawn, Vec2_neg(position))

InitPencilHist ==
    [op |-> "new",            \* the method that ran last
     ops |-> 0,               \* methods called so far
     position |-> Vec2_zero,  \* its position argument
     dimension |-> Vec2_zero, \* the dimension of the last draw_filled_rect
     text |-> <<>>,           \* the text of the last draw_text
     value |-> " ",           \* the character of the last draw_char, line, rect
     origin_before |-> Vec2_zero, \* Pencil::origin before it
     before |-> <<>>,         \* Canvas::data before it
     panicked |-> FALSE]      \* it panicked

\* no drawing under way: the Pencil of an empty Canvas
PencilIdle ==
    /\ canvas = Canvas_new(Vec2_zero, VisualElementNew)
    /\ pen = Pencil_new(canvas)
    /\ pen_hist = InitPencilHist

DrawingIdle == PencilIdle /\ SpatialIdle

\* ---- specification of the keyboard engine --------------------------------
\* an engine whose last_input_timestamp starts at Instant::now()
KeyboardNewAtNow ==
    /\ now = 0
    /\ device_keys = {}
    /\ term_input = FALSE
    /\ last_device_state = {}
    /\ acc_channel = <<>>
    /\ event_channel = <<>>
    /\ acc_pc = "poll"
    /\ thread_running = TRUE
    /\ ev_pc = "check"
    /\ drop_pc = "live"
    /\ event_accumulator = <<>>
    /\ last_input_timestamp = 0
    /\ state = << >>
    /\ last_key_events = <<>>
    /\ last_key_stamp = 0
    /\ kb_hist = InitHist
    /\ cs_hist = InitConsumeHist

\* Keyboard::new: the fields and the two threads as they start
KeyboardNew ==
    /\ now = 0
    /\ device_keys = {}
    /\ term_input = FALSE
    /\ last_device_state = {}
    /\ acc_channel = <<>>
    /\ event_channel = <<>>
    /\ acc_pc = "poll"
    /\ thread_running = TRUE
    /\ ev_pc = "check"
    /\ drop_pc = "live"
    /\ event_accumulator = <<>>
    /\ last_input_timestamp = 0 - (KEY_EVENT_FOCUS_DELAY_MS + 1)
    /\ state = << >>
    /\ last_key_events = <<>>
    /\ last_key_stamp = 0
    /\ kb_hist = InitHist
    /\ cs_hist = InitConsumeHist

InitKeyboard == KeyboardNew /\ TerminalIdle /\ AppIdle /\ DrawingIdle

NextKeyboard ==
    \/ \E kc \in Keycodes : KeyDown(kc)
    \/ \E kc \in Keycodes : KeyUp(kc)
    \/ TermInput
    \/ \E d \in TickChoices : Tick(d)
    \/ EventThreadIterate
    \/ AccPoll
    \/ AccRetain
    \/ AccRecv
    \/ KbConsume

SpecKeyboard == InitKeyboard /\ [][NextKeyboard]_vars

\* ---- specification of consume_key_events over any public stream ---------
\* One of the two senders (pressed_event_sender at lines 242 and 249,
\* released_event_sender at line 379) delivers a KeyEvent to event_receiver.
StreamSend(kind, key) ==
    /\ cs_hist.sent < MaxStream
    /\ event_channel' = Append(event_channel, Signal(kind, key, 0, 0))
    /\ cs_hist' = [cs_hist EXCEPT !.sent = @ + 1, !.quietCalls = 0]
    /\ UNCHANGED <<draw_vars, term_vars, app_vars, sd_vars, now, device_keys, term_input, last_device_state, acc_channel,
                   acc_pc, event_accumulator, last_input_timestamp, state,
                   last_key_events, last_key_stamp, kb_hist>>

\* consume_key_events called by the frame loop
CsConsume ==
    /\ consume_key_events
    /\ LET drained == SubSeq(event_channel, 1, Len(event_channel) - Len(event_channel'))
           batch == last_key_events'
           pressed == SelectSeq(batch, LAMBDA e : e.kind = "Pressed")
       IN  cs_hist' = [cs_hist EXCEPT
              !.quietCalls = IF @ < 2 THEN @ + 1 ELSE @,
              !.drained = KeyEventsOf(drained),
              !.stateBefore = state,
              !.log = @ \o KeyEventsOf(drained),
              !.heldOrder = SelectSeq(@ \o [i \in 1..Len(pressed) |-> pressed[i].key],
                                      LAMBDA k : k \in DOMAIN state')]
    /\ UNCHANGED <<draw_vars, term_vars, app_vars, sd_vars, now, device_keys, term_input, last_device_state, acc_channel,
                   acc_pc, event_accumulator, last_input_timestamp, kb_hist>>

NextConsume ==
    \/ \E kind \in {"Pressed", "Released"}, key \in MappedKeys : StreamSend(kind, key)
    \/ CsConsume

SpecConsume == InitKeyboard /\ [][NextConsume]_vars

(***************************************************************************)
(* Claims about the keyboard engine                                        *)
(***************************************************************************)
Abs(x) == IF x >= 0 THEN x ELSE 0 - x

ObsIds == 1..Len(kb_hist.obs)

PressIds == {p \in ObsIds : kb_hist.obs[p].kind = "Pressed"}

\* the press reached the pending list (it has an arrival instant)
Arrived(p) == kb_hist.obs[p].fate /= "sent"

\* some instant returned by process_input_timestamp lies within the window of
\* the arrival instant of p
HasFocusStamp(p) ==
    \E s \in kb_hist.focus_stamps :
        Abs(s - kb_hist.obs[p].arrival) <= KEY_EVENT_FOCUS_DELAY_MS

\* no focus stamp lies within the window of p's arrival and none can any more
Uncorroborated(p) ==
    /\ Arrived(p)
    /\ ~HasFocusStamp(p)
    /\ now - kb_hist.obs[p].arrival > KEY_EVENT_FOCUS_DELAY_MS

\* the signals of press p: its Pressed and the Released of the same hold
EventsOf(p) ==
    {n \in ObsIds : n = p \/ (kb_hist.obs[n].kind = "Released" /\ kb_hist.obs[n].press = p)}

\* C1: focus isolation.  For a device-observed press whose arrival instant has
\* no focus stamp within 20 ms on either side, no event of that press was ever
\* in a consumed batch (last_key_events) and the press holds no key in the
\* down-map (get_keys_down).
C1_FocusIsolation ==
    \A p \in PressIds :
        Uncorroborated(p) =>
            /\ \A n \in EventsOf(p) : kb_hist.obs[n].delivered = 0
            /\ \A k \in DOMAIN state : kb_hist.insertedBy[k] /= p

\* the correlation stage forwarded the signal of observation p and a consume
\* call has drained it from the public stream
Drained(p) ==
    /\ kb_hist.obs[p].fate = "forwarded"
    /\ \A i \in 1..Len(event_channel) : event_channel[i].obs /= p

\* C2: exactly-once delivery.  A press with a focus stamp within 20 ms of its
\* arrival is never in more than one consumed batch, and once the consumer has
\* drained its accepted signal, its Pressed event was in exactly one batch.
C2_ExactlyOnce ==
    \A p \in PressIds :
        (Arrived(p) /\ HasFocusStamp(p)) =>
            /\ kb_hist.obs[p].delivered <= 1
            /\ Drained(p) => kb_hist.obs[p].delivered = 1

(***************************************************************************)
(* Claims about consume_key_events and get_keys_down                       *)
(***************************************************************************)
IndexOf(seq, x) == CHOOSE i \in 1..Len(seq) : seq[i] = x

\* C3: get_keys_down lists exactly the keys of the down-map, each once, in
\* the order they were inserted (oldest-held first); two held keys never have
\* the same stamp and the key inserted later has the larger one; after the
\* public stream delivered Pressed A, B, C (in any split across consume
\* calls) it is <<A, B, C>>, and after a following Released B it is <<A, C>>.
C3_KeysDownOrder ==
    /\ Range(get_keys_down) = DOMAIN state
    /\ Len(get_keys_down) = Cardinality(DOMAIN state)
    /\ get_keys_down = cs_hist.heldOrder
    /\ \A i, j \in 1..Len(cs_hist.heldOrder) :
          i < j => state[cs_hist.heldOrder[i]] < state[cs_hist.heldOrder[j]]
    /\ cs_hist.log = <<<<"Pressed", "A">>, <<"Pressed", "B">>, <<"Pressed", "C">>>>
          => get_keys_down = <<"A", "B", "C">>
    /\ cs_hist.log = <<<<"Pressed", "A">>, <<"Pressed", "B">>, <<"Pressed", "C">>,
                       <<"Released", "B">>>>
          => get_keys_down = <<"A", "C">>

\* A, B, C were pressed, B and C in one frame, B was released in a later frame
C3_Witness ==
    /\ cs_hist.log = <<<<"Pressed", "A">>, <<"Pressed", "B">>, <<"Pressed", "C">>,
                       <<"Released", "B">>>>
    /\ cs_hist.drained = <<<<"Released", "B">>>>
    /\ get_keys_down = <<"A", "C">>
    /\ state["A"] = 0 /\ state["C"] = 2

\* C4: a consume call that follows another one with no signal sent on the
\* public stream in between returns an empty batch and leaves the down-map
\* as it was.
C4_SecondConsumeEmpty ==
    cs_hist.quietCalls = 2 =>
        /\ last_key_events_view = <<>>
        /\ state = cs_hist.stateBefore

\* the first of the two calls delivered a press: a key is down, the batch empty
C4_Witness ==
    /\ cs_hist.quietCalls = 2
    /\ cs_hist.log /= <<>>
    /\ DOMAIN state /= {}
    /\ last_key_events_view = <<>>

\* C5: if a key that was not down has both Pressed(k) and Released(k) among
\* the signals one consume call drained, in whatever order they arrived, the
\* batch holds Pressed(k) and later Released(k), and k is not down afterwards.
C5_PressedBeforeReleased ==
    \A k \in MappedKeys :
        ( /\ k \notin DOMAIN cs_hist.stateBefore
          /\ <<"Pressed", k>> \in Range(cs_hist.drained)
          /\ <<"Released", k>> \in Range(cs_hist.drained) )
        => /\ <<"Pressed", k>> \in Range(last_key_events_view)
           /\ <<"Released", k>> \in Range(last_key_events_view)
           /\ IndexOf(last_key_events_view, <<"Pressed", k>>)
                 < IndexOf(last_key_events_view, <<"Released", k>>)
           /\ k \notin DOMAIN state

\* Released(A) arrived before Pressed(A) and both were drained by one call
C5_Witness ==
    /\ cs_hist.drained = <<<<"Released", "A">>, <<"Pressed", "A">>>>
    /\ "A" \notin DOMAIN cs_hist.stateBefore
    /\ last_key_events_view = <<<<"Pressed", "A">>, <<"Released", "A">>>>
    /\ "A" \notin DOMAIN state

(***************************************************************************)
(* terminal.rs: Surface access, Pencil and Window                          *)
(***************************************************************************)
\* draw_element calls explored between two clears
MaxDraws == 2

\* the sizes ct::terminal::size() reports: a row, a small rectangle, a
\* terminal without columns and one of 65536 cells
TermSizes == {<<3, 1>>, <<4, 2>>, <<0, 2>>, <<256, 256>>}

\* the sizes for which Window::new builds the grid without overflow
StartSizes == {d \in TermSizes : ~mul_overflows(d[1], d[2])}

\* the positions handed to draw_element: inside, on the edge of and far
\* outside the small grids
Positions == {0, 1, 3, 4, U16_VALUES - 1} \X (0..1)

\* the attributes a Pencil was given by set_foreground, set_background and
\* set_style
PencilChoices ==
    {[foreground |-> "Red", background |-> "Black", style |-> "Plain"],
     [foreground |-> "White", background |-> "Blue", style |-> "Plain"],
     [foreground |-> "White", background |-> "Black", style |-> "Bold"]}

\* the elements handed to set_default_element
DefaultElements ==
    {VisualElementNew,
     [style |-> "Bold", background |-> "Blue", foreground |-> "Red", value |-> "."]}

\* Surface::contains
contains(s, pos) ==
    pos[1] < s.dimension[1] /\ pos[2] < s.dimension[2]

\* the index (pos.1 * self.dimension.0 + pos.0) as usize, counted from 0.
\* With contains(pos) the sum overflows only in a grid whose cell count
\* overflowed in Surface::new, which a build with overflow checks does not
\* construct: the arithmetic is the wrapping one.
elem_index(s, pos) == add_u16(mul_u16(pos[2], s.dimension[1]), pos[1])

\* Surface::elem: Some(cell), None, or the panic of indexing data out of
\* range
elem(s, pos) ==
    IF contains(s, pos)
    THEN IF elem_index(s, pos) < Len(s.data)
         THEN [kind |-> "Some", index |-> elem_index(s, pos) + 1]
         ELSE [kind |-> "panic", index |-> 0]
    ELSE [kind |-> "None", index |-> 0]

\* Surface::elem_mut
elem_mut(s, pos) ==
    IF contains(s, pos)
    THEN IF elem_index(s, pos) < Len(s.data)
         THEN [kind |-> "Some", index |-> elem_index(s, pos) + 1]
         ELSE [kind |-> "panic", index |-> 0]
    ELSE [kind |-> "None", index |-> 0]

\* the element Pencil::draw_element writes
drawn_element(pencil, value) ==
    [style |-> pencil.style, background |-> pencil.background,
     foreground |-> pencil.foreground, value |-> value]

\* Pencil::draw_element on the surface the pencil borrows
draw_element(s, pencil, pos, value) ==
    IF elem_mut(s, pos).kind = "Some"
    THEN [s EXCEPT !.data[elem_mut(s, pos).index] = drawn_element(pencil, value)]
    ELSE s

PencilDrawElement(pencil, pos, value) ==
    /\ ~srf_panic
    /\ win_hist.draws < MaxDraws
    /\ srf_panic' = (elem_mut(surface, pos).kind = "panic")
    /\ surface' = draw_element(surface, pencil, pos, value)
    /\ win_hist' = [win_hist EXCEPT !.lastOp = "draw",
                                    !.pos = pos,
                                    !.drawn = drawn_element(pencil, value),
                                    !.before = surface.data,
                                    !.out = <<>>, !.sink = <<>>,
                                    !.draws = @ + 1]
    /\ UNCHANGED <<draw_vars, kb_vars, app_vars>>

\* Surface::set_default_element through Window::surface_mut
SetDefaultElement(element) ==
    /\ ~srf_panic
    /\ element /= surface.default_element
    /\ surface' = [surface EXCEPT !.default_element = element]
    /\ win_hist' = [win_hist EXCEPT !.lastOp = "default", !.before = <<>>,
                                    !.out = <<>>, !.sink = <<>>]
    /\ UNCHANGED <<draw_vars, kb_vars, app_vars, srf_panic>>

\* Surface::fill
fill(s, element) == [s EXCEPT !.data = [i \in DOMAIN s.data |-> element]]

\* Window::clear
Window_clear_in_place(s, current_size) == fill(s, s.default_element)

Window_clear(s, current_size) ==
    IF current_size[1] /= s.dimension[1] \/ current_size[2] /= s.dimension[2]
    THEN Surface_new(current_size, s.default_element)
    ELSE fill(s, s.default_element)

IsDirty(s) == \E i \in DOMAIN s.data : s.data[i] /= s.default_element

\* Window::clear, ct::terminal::size() answering current_size
WindowClear(current_size) ==
    /\ ~srf_panic
    /\ surface' = Window_clear(surface, current_size)
    /\ win_hist' = [win_hist EXCEPT !.lastOp = "clear",
                                    !.queried = current_size,
                                    !.reallocated = (current_size /= surface.dimension),
                                    !.dirtyBefore = IsDirty(surface),
                                    !.before = <<>>,
                                    !.out = <<>>, !.sink = <<>>,
                                    !.draws = 0]
    /\ UNCHANGED <<draw_vars, kb_vars, app_vars, srf_panic>>

\* Window::clear in a build with overflow checks, the new size not fitting
WindowClearOverflow(current_size) ==
    /\ ~srf_panic
    /\ current_size /= surface.dimension
    /\ mul_overflows(current_size[1], current_size[2])
    /\ srf_panic' = TRUE
    /\ win_hist' = [win_hist EXCEPT !.lastOp = "overflow", !.before = <<>>,
                                    !.out = <<>>, !.sink = <<>>]
    /\ UNCHANGED <<draw_vars, kb_vars, app_vars, surface>>

\* Window::clean_state
clean_state(s) ==
    <<[cmd |-> "SetAttribute", attr |-> "NoBold"],
      [cmd |-> "SetForegroundColor", code |-> code(s.default_element.foreground)],
      [cmd |-> "SetBackgroundColor", code |-> code(s.default_element.background)],
      [cmd |-> "MoveTo", col |-> 0, row |-> 0]>>

\* last_style, last_foreground and last_background before the first cell
last_of_default(s) ==
    [style |-> s.default_element.style,
     foreground |-> s.default_element.foreground,
     background |-> s.default_element.background]

\* the body of the loop of Window::update: what it queues for one element
element_commands(element, last) ==
    (IF last.style /= element.style
     THEN <<[cmd |-> "SetAttribute", attr |-> style_impl(element.style)]>>
     ELSE <<>>)
    \o (IF last.foreground /= element.foreground
        THEN <<[cmd |-> "SetForegroundColor", code |-> code(element.foreground)]>>
        ELSE <<>>)
    \o (IF last.background /= element.background
        THEN <<[cmd |-> "SetBackgroundColor", code |-> code(element.background)]>>
        ELSE <<>>)
    \o <<[cmd |-> "Output", value |-> element.value]>>

\* the body of the loop of Window::update: last_* after one element
track_last_stale(element, last) == last

track_last(element, last) ==
    [style |-> element.style,
     foreground |-> element.foreground,
     background |-> element.background]

RECURSIVE update_loop(_, _)
\* the loop of Window::update over surface.data
update_loop(data, last) ==
    IF data = <<>> THEN <<>>
    ELSE element_commands(Head(data), last)
         \o update_loop(Tail(data), track_last(Head(data), last))

\* Window::update: what it queues and then flushes
update(s) ==
    clean_state(s) \o update_loop(s.data, last_of_default(s)) \o clean_state(s)

RECURSIVE flush_after_output(_)
\* a sink flushed after every character
flush_after_output(cmds) ==
    IF cmds = <<>> THEN <<>>
    ELSE (IF Head(cmds).cmd = "Output"
          THEN <<Head(cmds), [cmd |-> "flush"]>>
          ELSE <<Head(cmds)>>)
         \o flush_after_output(Tail(cmds))

\* an update that flushes the sink cell by cell
target_calls_per_cell(s) == flush_after_output(update(s)) \o <<[cmd |-> "flush"]>>

\* Window::update: the calls it makes on self.target, the queue! macros of
\* lines 304-327 and the flush of line 328
target_calls(s) == update(s) \o <<[cmd |-> "flush"]>>

WindowUpdate ==
    /\ ~srf_panic
    /\ win_hist' = [win_hist EXCEPT !.lastOp = "update", !.before = <<>>,
                                    !.out = update(surface),
                                    !.sink = target_calls(surface)]
    /\ UNCHANGED <<draw_vars, kb_vars, app_vars, surface, srf_panic>>

\* Window::new, ct::terminal::size() answering one of StartSizes
WindowNew ==
    /\ \E dimension \in StartSizes : surface = Surface_new(dimension, VisualElementNew)
    /\ srf_panic = FALSE
    /\ win_hist = InitWindowHist

InitWindow == KeyboardNew /\ WindowNew /\ AppIdle /\ DrawingIdle

NextWindow ==
    \/ \E current_size \in TermSizes : WindowClear(current_size)
    \/ \E current_size \in TermSizes : WindowClearOverflow(current_size)
    \/ \E pencil \in PencilChoices, pos \in Positions : PencilDrawElement(pencil, pos, "#")
    \/ \E element \in DefaultElements : SetDefaultElement(element)
    \/ WindowUpdate

SpecWindow == InitWindow /\ [][NextWindow]_vars

(***************************************************************************)
(* Claims about the grid and the diff pass                                 *)
(***************************************************************************)
InGrid(pos) == pos[1] < surface.dimension[1] /\ pos[2] < surface.dimension[2]

\* the positions the accessors are asked about: those drawn at, the
\* bottom-right cell and the one diagonally past it
Probes ==
    Positions \cup {<<surface.dimension[1], surface.dimension[2]>>}
              \cup (IF surface.dimension[1] > 0 /\ surface.dimension[2] > 0
                    THEN {<<surface.dimension[1] - 1, surface.dimension[2] - 1>>}
                    ELSE {})

\* C6: elem and elem_mut return a cell exactly at the positions with
\* x < width and y < height, the bottom-right cell being (w-1, h-1); a
\* draw_element at a position with x >= width or y >= height does not
\* panic and leaves every cell unchanged, one inside changes that cell only.
C6_BoundsChecked ==
    /\ \A pos \in Probes :
          /\ (elem(surface, pos).kind = "Some") <=> InGrid(pos)
          /\ (elem_mut(surface, pos).kind = "Some") <=> InGrid(pos)
    /\ win_hist.lastOp = "draw" =>
          IF InGrid(win_hist.pos)
          THEN /\ ~srf_panic
               /\ Len(surface.data) = Len(win_hist.before)
               /\ \E i \in DOMAIN surface.data :
                     /\ surface.data[i] = win_hist.drawn
                     /\ \A j \in DOMAIN surface.data \ {i} :
                           surface.data[j] = win_hist.before[j]
          ELSE /\ ~srf_panic
               /\ surface.data = win_hist.before

\* the number of commands `cmd` in a command sequence
CountCmd(seq, cmd) == Cardinality({i \in DOMAIN seq : seq[i].cmd = cmd})

\* what the loop of the last update queued: all but the four commands of
\* each of the two clean_state calls
LoopCmds == SubSeq(win_hist.out, 5, Len(win_hist.out) - 4)

\* the number of maximal runs of cells with the same `attr` in scan order
Runs(attr) ==
    IF surface.data = <<>> THEN 0
    ELSE 1 + Cardinality({i \in 2..Len(surface.data) :
                             surface.data[i][attr] /= surface.data[i - 1][attr]})

\* 1 when the first cell has the default cell's `attr`
LeadingDefault(attr) ==
    IF surface.data /= <<>> /\ surface.data[1][attr] = surface.default_element[attr]
    THEN 1 ELSE 0

\* all cells have the default cell's `attr` but one, neither first nor last
SingleInterior(attr) ==
    \E i \in 2..(Len(surface.data) - 1) :
        /\ surface.data[i][attr] /= surface.default_element[attr]
        /\ \A j \in DOMAIN surface.data \ {i} :
              surface.data[j][attr] = surface.default_element[attr]

\* C7 as stated: update emits exactly one foreground-change command per run
\* of cells with the same foreground in scan order, and likewise for
\* background and weight.
C7_OnePerRun ==
    win_hist.lastOp = "update" =>
        /\ CountCmd(LoopCmds, "SetForegroundColor") = Runs("foreground")
        /\ CountCmd(LoopCmds, "SetBackgroundColor") = Runs("background")
        /\ CountCmd(LoopCmds, "SetAttribute") = Runs("style")

\* C7 amended: the loop of update emits a foreground-change command exactly at
\* the cells whose foreground differs from the preceding cell's, the first
\* cell being compared with the default cell: one per run, less one when the
\* first run has the default foreground (likewise background and weight).
\* Default cells with one differently-coloured cell that is neither first
\* nor last give exactly 2, whatever the length.  Each of the two
\* clean_state calls adds one command of each kind.
C7_OnePerRunAfterDefault ==
    win_hist.lastOp = "update" =>
        /\ CountCmd(LoopCmds, "SetForegroundColor")
              = Runs("foreground") - LeadingDefault("foreground")
        /\ CountCmd(LoopCmds, "SetBackgroundColor")
              = Runs("background") - LeadingDefault("background")
        /\ CountCmd(LoopCmds, "SetAttribute") = Runs("style") - LeadingDefault("style")
        /\ SingleInterior("foreground") => CountCmd(LoopCmds, "SetForegroundColor") = 2
        /\ SingleInterior("background") => CountCmd(LoopCmds, "SetBackgroundColor") = 2
        /\ SingleInterior("style") => CountCmd(LoopCmds, "SetAttribute") = 2
        /\ CountCmd(win_hist.out, "SetForegroundColor")
              = CountCmd(LoopCmds, "SetForegroundColor") + 2
        /\ CountCmd(win_hist.out, "SetBackgroundColor")
              = CountCmd(LoopCmds, "SetBackgroundColor") + 2
        /\ CountCmd(win_hist.out, "SetAttribute") = CountCmd(LoopCmds, "SetAttribute") + 2

\* an update of a two-row grid of default cells with one red cell inside
C7_Witness ==
    /\ win_hist.lastOp = "update"
    /\ surface.dimension = <<4, 2>>
    /\ SingleInterior("foreground")
    /\ CountCmd(LoopCmds, "SetForegroundColor") = 2

\* C8: after every Window::clear the dimension of the grid is the terminal
\* size that clear read and every cell is the default cell, whether the
\* grid was reallocated (the size differed) or reset in place.
C8_ClearMatchesTerminal ==
    win_hist.lastOp = "clear" =>
        /\ surface.dimension = win_hist.queried
        /\ \A i \in DOMAIN surface.data : surface.data[i] = surface.default_element
        /\ ~srf_panic

\* a clear that reallocated a grid with drawn cells into one with cells
C8_Witness ==
    /\ win_hist.lastOp = "clear"
    /\ win_hist.reallocated
    /\ win_hist.dirtyBefore
    /\ surface.data /= <<>>

(***************************************************************************)
(* terminal.rs: Window::open and Window::close; app.rs: App::run           *)
(***************************************************************************)
\* nanoseconds in the second that is divided by fps
NANOS_PER_SEC == 1000000000

\* the frame_action explored calls State::stop, or panics, at a step below
MaxSteps == 4

\* the frame rates of Config: none, 10 frames a second (a budget of
\* 100 ms) and one past a frame per nanosecond (a budget of 0)
FpsChoices == {0, 10, 2000000000}

\* what one invocation of frame_action takes, in ns
CallbackDurations == {0, 40000000, 120000000}

\* what one Window::draw takes, in ns
PresentDurations == {10000000, 120000000}

\* the frame_actions explored: each calls State::stop at one value of
\* State::step and panics at none or one
FrameActions ==
    {[stop_on |-> {s}, panic_on |-> P, draw_on |-> {}] :
        s \in 0..(MaxSteps - 1),
        P \in {{}} \cup {{k} : k \in 0..(MaxSteps - 1)}}

\* Window::open on the terminal modes
Window_open(t) == [raw |-> TRUE, alternate |-> TRUE, cursor_hidden |-> TRUE]

\* Window::close: raw mode is disabled at once; the four queued commands
\* reach the terminal with the flush, which the panic on a reader that is
\* None comes before
Window_close(r, t) ==
    IF r = "Some"
    THEN [panic |-> FALSE, reader |-> "None", tty |-> TtyOfShell]
    ELSE [panic |-> TRUE, reader |-> "None", tty |-> [t EXCEPT !.raw = FALSE]]

\* expected_duration.checked_sub(self.state.dt), the time slept
sleep_whole_budget(expected, elapsed) == expected

checked_sub(expected, elapsed) == expected - elapsed

\* what App::run leaves alone outside the loop body
AppRest == <<draw_vars, kb_vars, term_vars, config_fps, callback>>

\* a frame budget counted in milliseconds
AppStartMillis ==
    /\ app_pc = "start"
    /\ IF config_fps = 0
       THEN /\ app_pc' = "panicked"
            /\ UNCHANGED <<expected_duration, running>>
       ELSE /\ expected_duration' = 1000 \div config_fps
            /\ running' = TRUE
            /\ app_pc' = "open"
    /\ UNCHANGED <<AppRest, reader, tty, step, dt, clock, frame_start, app_hist>>

\* line 117-118: the frame budget and State::run; a division by zero
\* panics before catch_unwind
AppStart ==
    /\ app_pc = "start"
    /\ IF config_fps = 0
       THEN /\ app_pc' = "panicked"
            /\ UNCHANGED <<expected_duration, running>>
       ELSE /\ expected_duration' = NANOS_PER_SEC \div config_fps
            /\ running' = TRUE
            /\ app_pc' = "open"
    /\ UNCHANGED <<AppRest, reader, tty, step, dt, clock, frame_start, app_hist>>

\* line 121
AppOpen ==
    /\ app_pc = "open"
    /\ tty' = Window_open(tty)
    /\ reader' = "Some"
    /\ app_pc' = "check"
    /\ app_hist' = [app_hist EXCEPT !.opened = TRUE]
    /\ UNCHANGED <<AppRest, expected_duration, running, step, dt, clock, frame_start>>

\* line 122-123: the loop condition and, in the body, `now`
AppCheck ==
    /\ app_pc = "check"
    /\ IF running
       THEN /\ frame_start' = clock
            /\ app_pc' = "clear"
            /\ app_hist' = [app_hist EXCEPT !.iter = <<>>, !.iters = @ + 1,
                                            !.prev_start = frame_start,
                                            !.last_sleep = 0]
       ELSE /\ app_pc' = "close"
            /\ UNCHANGED <<frame_start, app_hist>>
    /\ UNCHANGED <<AppRest, reader, tty, expected_duration, running, step, dt, clock>>

\* an iteration that left window.clear() out
AppClearSkipped ==
    /\ app_pc = "clear"
    /\ app_pc' = "consume"
    /\ app_hist' = [app_hist EXCEPT !.iter = Append(@, "clear")]
    /\ UNCHANGED <<draw_vars, kb_vars, term_vars, config_fps, callback, reader, tty,
                   expected_duration, running, step, dt, clock, frame_start>>

\* line 124: window.clear(), the terminal keeping its size
AppClear ==
    /\ app_pc = "clear"
    /\ surface' = Window_clear(surface, surface.dimension)
    /\ app_pc' = "consume"
    /\ app_hist' = [app_hist EXCEPT !.iter = Append(@, "clear")]
    /\ UNCHANGED <<draw_vars, kb_vars, srf_panic, win_hist, config_fps, callback, reader, tty,
                   expected_duration, running, step, dt, clock, frame_start>>

\* line 126
AppConsume ==
    /\ app_pc = "consume"
    /\ consume_key_events
    /\ app_pc' = "callback"
    /\ app_hist' = [app_hist EXCEPT !.iter = Append(@, "consume"), !.consume_step = step,
                                    !.consumed = last_key_events']
    /\ UNCHANGED <<now, device_keys, term_input, last_device_state, acc_channel, acc_pc,
                   event_accumulator, last_input_timestamp, kb_hist, cs_hist, sd_vars,
                   draw_vars, term_vars, config_fps, callback, reader, tty, expected_duration,
                   running, step, dt, clock, frame_start>>

\* the Pencil the frame_action draws with
CallbackPencil == [foreground |-> "Red", background |-> "Black", style |-> "Plain"]

\* a loop that samples the stop flag as soon as frame_action returns
AppCallbackBreaks(d) ==
    /\ app_pc = "callback"
    /\ step \notin callback.panic_on
    /\ running' = IF step \in callback.stop_on THEN FALSE ELSE running
    /\ clock' = clock + d
    /\ app_pc' = IF step \in callback.stop_on THEN "close" ELSE "draw"
    /\ app_hist' = [app_hist EXCEPT !.calls = @ + 1, !.cb_end = clock + d,
                                    !.sleeps = 0, !.slept = 0,
                                    !.iter = Append(@, "callback"),
                                    !.cb_step = step,
                                    !.cb_clean = ~IsDirty(surface),
                                    !.stop_call = IF step \in callback.stop_on /\ @ = 0
                                                  THEN app_hist.calls + 1 ELSE @]
    /\ UNCHANGED <<draw_vars, kb_vars, term_vars, config_fps, callback, reader, tty,
                   expected_duration, step, dt, frame_start>>

\* line 127: frame_action returns after d ns, having called State::stop
\* if this is its step to do so and drawn on the grid if it is its step to
AppCallbackReturns(d) ==
    /\ app_pc = "callback"
    /\ step \notin callback.panic_on
    /\ running' = IF step \in callback.stop_on THEN FALSE ELSE running
    /\ clock' = clock + d
    /\ app_pc' = "draw"
    /\ surface' = IF step \in callback.draw_on
                  THEN draw_element(surface, CallbackPencil, <<0, 0>>, "#")
                  ELSE surface
    /\ app_hist' = [app_hist EXCEPT !.calls = @ + 1, !.cb_end = clock + d,
                                    !.sleeps = 0, !.slept = 0,
                                    !.iter = Append(@, "callback"),
                                    !.cb_step = step,
                                    !.cb_clean = ~IsDirty(surface),
                                    !.stop_call = IF step \in callback.stop_on /\ @ = 0
                                                  THEN app_hist.calls + 1 ELSE @]
    /\ UNCHANGED <<draw_vars, kb_vars, srf_panic, win_hist, config_fps, callback, reader, tty,
                   expected_duration, step, dt, frame_start>>

\* line 127 and 120: frame_action panics after d ns, catch_unwind returns Err
AppCallbackPanics(d) ==
    /\ app_pc = "callback"
    /\ step \in callback.panic_on
    /\ clock' = clock + d
    /\ app_pc' = "caught"
    /\ app_hist' = [app_hist EXCEPT !.calls = @ + 1, !.cb_end = clock + d,
                                    !.sleeps = 0, !.slept = 0, !.failed = TRUE,
                                    !.iter = Append(@, "callback"),
                                    !.cb_step = step,
                                    !.cb_clean = ~IsDirty(surface)]
    /\ UNCHANGED <<AppRest, reader, tty, expected_duration, running, step, dt,
                   frame_start>>

\* line 129: the present, taking d ns
AppDraw(d) ==
    /\ app_pc = "draw"
    /\ win_hist' = [win_hist EXCEPT !.lastOp = "update", !.before = <<>>,
                                    !.out = update(surface),
                                    !.sink = target_calls(surface)]
    /\ clock' = clock + d
    /\ app_pc' = "account"
    /\ app_hist' = [app_hist EXCEPT !.iter = Append(@, "draw"), !.presents = @ + 1]
    /\ UNCHANGED <<draw_vars, kb_vars, surface, srf_panic, config_fps, callback, reader, tty,
                   expected_duration, running, step, dt, frame_start>>

\* an iteration that stores dt and leaves step as it was
AppAccountKeepsStep ==
    /\ app_pc = "account"
    /\ dt' = clock - frame_start
    /\ app_pc' = IF expected_duration >= clock - frame_start THEN "sleep" ELSE "check"
    /\ app_hist' = [app_hist EXCEPT !.iter = Append(@, "account")]
    /\ UNCHANGED <<AppRest, reader, tty, expected_duration, running, step, clock, frame_start>>

\* line 131-133: dt, step and the test of checked_sub
AppAccount ==
    /\ app_pc = "account"
    /\ dt' = clock - frame_start
    /\ step' = step + 1
    /\ app_pc' = IF expected_duration >= clock - frame_start THEN "sleep" ELSE "check"
    /\ app_hist' = [app_hist EXCEPT !.iter = Append(@, "account")]
    /\ UNCHANGED <<AppRest, reader, tty, expected_duration, running, clock, frame_start>>

\* line 134
AppSleep ==
    /\ app_pc = "sleep"
    /\ clock' = clock + checked_sub(expected_duration, dt)
    /\ app_pc' = "check"
    /\ app_hist' = [app_hist EXCEPT !.sleeps = @ + 1,
                                    !.slept = @ + checked_sub(expected_duration, dt),
                                    !.iter = Append(@, "sleep"),
                                    !.last_sleep = checked_sub(expected_duration, dt)]
    /\ UNCHANGED <<AppRest, reader, tty, expected_duration, running, step, dt,
                   frame_start>>

\* line 137: window.close() inside catch_unwind
AppClose ==
    /\ app_pc = "close"
    /\ reader' = Window_close(reader, tty).reader
    /\ tty' = Window_close(reader, tty).tty
    /\ IF Window_close(reader, tty).panic
       THEN /\ app_pc' = "caught"
            /\ UNCHANGED app_hist
       ELSE /\ app_pc' = "returned"
            /\ app_hist' = [app_hist EXCEPT !.closes = @ + 1]
    /\ UNCHANGED <<AppRest, expected_duration, running, step, dt, clock, frame_start>>

\* line 140-141: the prompt
AppPrompt ==
    /\ app_pc = "caught"
    /\ app_pc' = "ack"
    /\ UNCHANGED <<AppRest, reader, tty, expected_duration, running, step, dt, clock,
                   frame_start, app_hist>>

\* line 142: io::stdin().lock().lines().next().unwrap().unwrap(): a line
\* is read, or next() is None at the end of the input, or Some(Err) on a
\* read error or a line that is not UTF-8, and the unwrap panics
AppAck(outcome) ==
    /\ app_pc = "ack"
    /\ app_pc' = IF outcome = "line" THEN "recover" ELSE "panicked"
    /\ UNCHANGED <<AppRest, reader, tty, expected_duration, running, step, dt, clock,
                   frame_start, app_hist>>

\* line 143: window.close() after the acknowledgment
AppRecover ==
    /\ app_pc = "recover"
    /\ reader' = Window_close(reader, tty).reader
    /\ tty' = Window_close(reader, tty).tty
    /\ IF Window_close(reader, tty).panic
       THEN /\ app_pc' = "panicked"
            /\ UNCHANGED app_hist
       ELSE /\ app_pc' = "returned"
            /\ app_hist' = [app_hist EXCEPT !.closes = @ + 1]
    /\ UNCHANGED <<AppRest, expected_duration, running, step, dt, clock, frame_start>>

InitApp ==
    /\ KeyboardNew
    /\ DrawingIdle
    /\ WindowNew
    /\ \E fps \in FpsChoices, frame_action \in FrameActions : AppConfig(fps, frame_action)

NextApp ==
    \/ AppStart
    \/ AppOpen
    \/ AppCheck
    \/ AppClear
    \/ AppConsume
    \/ \E d \in CallbackDurations : AppCallbackReturns(d)
    \/ \E d \in CallbackDurations : AppCallbackPanics(d)
    \/ \E d \in PresentDurations : AppDraw(d)
    \/ AppAccount
    \/ AppSleep
    \/ AppClose
    \/ AppPrompt
    \/ \E outcome \in {"line", "eof", "error"} : AppAck(outcome)
    \/ AppRecover

SpecApp == InitApp /\ [][NextApp]_vars

(***************************************************************************)
(* Claims about the frame loop                                             *)
(***************************************************************************)
Restored == tty = TtyOfShell /\ reader = "None"

\* run has returned from a frame_action that sets the stop signal in its
\* third invocation, where State::step reads 2, and never panics
StoppedOnThird ==
    /\ app_pc = "returned"
    /\ callback = [stop_on |-> {2}, panic_on |-> {}, draw_on |-> {}]

C10_RestoredOnExit ==
    (app_pc \in {"returned", "panicked"} /\ app_hist.opened) =>
        /\ app_hist.closes >= 1
        /\ Restored

\* C11: after a panic of the user callback run does not return normally:
\* the panic is caught, the terminal is restored and, after the
\* acknowledgment, the failure is raised again to the caller of run.
C11_FailureReRaised ==
    app_hist.failed => app_pc /= "returned"

(***************************************************************************)
(* Further claims about the keyboard engine                                *)
(***************************************************************************)
\* C12: a transition of a physical key without a mapping is not dropped:
\* once the device observer has seen such a key go down, a Pressed(Unknown)
\* signal has been derived for the correlation stage.
C12_UnknownForwarded ==
    (\E kc \in last_device_state : transform_device_key(kc) = "Unknown") =>
        \E n \in ObsIds : kb_hist.obs[n].key = "Unknown"

(***************************************************************************)
(* Further claims about the grid and the window                            *)
(***************************************************************************)
\* C13: the cell array has exactly width * height cells, and every
\* position inside the grid maps to an index in range of it, y * width + x
\* in the 16-bit arithmetic of the code, two positions never to the same.
C13_GridSize ==
    LET inside == {pos \in Probes : InGrid(pos)}
    IN  /\ Len(surface.data) = surface.dimension[1] * surface.dimension[2]
        /\ \A pos \in inside :
              /\ elem_index(surface, pos) = pos[2] * surface.dimension[1] + pos[1]
              /\ elem_index(surface, pos) < Len(surface.data)
        /\ \A p, q \in inside :
              p /= q => elem_index(surface, p) /= elem_index(surface, q)

(***************************************************************************)
(* keyboard.rs: Drop for Keyboard against the two observer threads         *)
(***************************************************************************)
\* line 230: the acc_thread loads the flag and, it being set, runs
\* process_input_timestamp
SdAccPoll ==
    /\ thread_running
    /\ AccPoll

\* line 230 and 263: the acc_thread loads the flag cleared and returns; its
\* closure drops acc_receiver, the pending list and pressed_event_sender
SdAccExit ==
    /\ acc_pc = "poll"
    /\ ~thread_running
    /\ acc_pc' = "exited"
    /\ UNCHANGED <<draw_vars, term_vars, app_vars, sd_vars, now, device_keys, term_input,
                   last_device_state, acc_channel, event_channel, event_accumulator,
                   last_input_timestamp, state, last_key_events, last_key_stamp,
                   kb_hist, cs_hist>>

\* line 270: the event_thread loads the flag
SdEventCheck ==
    /\ ev_pc = "check"
    /\ ev_pc' = IF thread_running THEN "body" ELSE "exited"
    /\ UNCHANGED <<draw_vars, term_vars, app_vars, thread_running, drop_pc, now, device_keys,
                   term_input, last_device_state, acc_channel, event_channel, acc_pc,
                   event_accumulator, last_input_timestamp, state, last_key_events,
                   last_key_stamp, kb_hist, cs_hist>>

\* line 361: sender.send(KeyEvent::Pressed(key)).unwrap() fails once
\* acc_receiver is dropped
pressed_send_fails ==
    /\ acc_pc = "exited"
    /\ process_pressed_event(device_keys, last_device_state) /= <<>>

\* line 271-279: the body of the event_thread loop; the unwrap of a failed
\* send panics the thread before anything is sent
SdEventBody ==
    /\ ev_pc = "body"
    /\ IF pressed_send_fails
       THEN /\ ev_pc' = "panicked"
            /\ UNCHANGED <<acc_channel, event_channel, last_device_state, kb_hist>>
       ELSE /\ event_thread_body
            /\ ev_pc' = "check"
    /\ UNCHANGED <<draw_vars, term_vars, app_vars, thread_running, drop_pc, now, device_keys,
                   term_input, acc_pc, event_accumulator, last_input_timestamp, state,
                   last_key_events, last_key_stamp, cs_hist>>

\* line 477
DropStore ==
    /\ drop_pc = "live"
    /\ thread_running' = FALSE
    /\ drop_pc' = "join_acc"
    /\ UNCHANGED <<draw_vars, term_vars, app_vars, ev_pc, now, device_keys, term_input,
                   last_device_state, acc_channel, event_channel, acc_pc,
                   event_accumulator, last_input_timestamp, state, last_key_events,
                   last_key_stamp, kb_hist, cs_hist>>

\* line 478: join returns when the acc_thread has ended
DropJoinAcc ==
    /\ drop_pc = "join_acc"
    /\ acc_pc = "exited"
    /\ drop_pc' = "join_event"
    /\ UNCHANGED <<draw_vars, term_vars, app_vars, thread_running, ev_pc, now, device_keys,
                   term_input, last_device_state, acc_channel, event_channel, acc_pc,
                   event_accumulator, last_input_timestamp, state, last_key_events,
                   last_key_stamp, kb_hist, cs_hist>>

\* line 479: join returns when the event_thread has ended, with Err when it
\* panicked, which the unwrap turns into a panic of drop
DropJoinEvent ==
    /\ drop_pc = "join_event"
    /\ ev_pc \in {"exited", "panicked"}
    /\ drop_pc' = IF ev_pc = "panicked" THEN "panicked" ELSE "done"
    /\ UNCHANGED <<draw_vars, term_vars, app_vars, thread_running, ev_pc, now, device_keys,
                   term_input, last_device_state, acc_channel, event_channel, acc_pc,
                   event_accumulator, last_input_timestamp, state, last_key_events,
                   last_key_stamp, kb_hist, cs_hist>>

InitShutdown == KeyboardNew /\ TerminalIdle /\ AppIdle /\ DrawingIdle

NextShutdown ==
    \/ \E kc \in Keycodes : KeyDown(kc)
    \/ \E kc \in Keycodes : KeyUp(kc)
    \/ TermInput
    \/ \E d \in TickChoices : Tick(d)
    \/ SdEventCheck
    \/ SdEventBody
    \/ SdAccPoll
    \/ AccRetain
    \/ AccRecv
    \/ SdAccExit
    \/ DropStore
    \/ DropJoinAcc
    \/ DropJoinEvent

SpecShutdown == InitShutdown /\ [][NextShutdown]_vars

\* C14: shutdown leaves no observer behind and does not fail: neither
\* observer thread panics, neither join of Drop yields an error, and when
\* drop has completed both threads have exited.
C14_ShutdownClean ==
    /\ ev_pc /= "panicked"
    /\ drop_pc /= "panicked"
    /\ drop_pc = "done" => (acc_pc = "exited" /\ ev_pc = "exited")

(***************************************************************************)
(* terminal.rs: Window::open and Window::close called in any order         *)
(***************************************************************************)
\* calls of open and close explored on one Window
MaxCalls == 5

\* the modes the terminal can be in when the program starts: cooked input,
\* on either screen, the cursor shown or hidden
ShellTtys ==
    {[raw |-> FALSE, alternate |-> a, cursor_hidden |-> h] : a, h \in BOOLEAN}

\* Window::open
WindowOpen ==
    /\ win_hist.calls < MaxCalls
    /\ tty' = Window_open(tty)
    /\ reader' = "Some"
    /\ win_hist' = [win_hist EXCEPT !.lastOp = "open", !.calls = @ + 1,
                                    !.tty_before = tty]
    /\ UNCHANGED <<draw_vars, kb_vars, surface, srf_panic, app_pc, config_fps, expected_duration,
                   running, step, dt, clock, frame_start, callback, app_hist>>

\* Window::close, the panic on a reader that is None being caught by the
\* caller
WindowClose ==
    /\ win_hist.calls < MaxCalls
    /\ tty' = Window_close(reader, tty).tty
    /\ reader' = Window_close(reader, tty).reader
    /\ win_hist' = [win_hist EXCEPT !.lastOp = "close", !.calls = @ + 1,
                                    !.tty_before = tty,
                                    !.close_from = reader,
                                    !.close_panicked = Window_close(reader, tty).panic]
    /\ UNCHANGED <<draw_vars, kb_vars, surface, srf_panic, app_pc, config_fps, expected_duration,
                   running, step, dt, clock, frame_start, callback, app_hist>>

\* Window::new in a terminal in one of ShellTtys
InitOpenClose ==
    /\ KeyboardNew
    /\ DrawingIdle
    /\ WindowNew
    /\ reader = "None"
    /\ tty \in ShellTtys
    /\ app_pc = "start"
    /\ config_fps = 30
    /\ expected_duration = 0
    /\ running = FALSE
    /\ step = 0
    /\ dt = 0
    /\ clock = 0
    /\ frame_start = 0
    /\ callback = [stop_on |-> {}, panic_on |-> {}, draw_on |-> {}]
    /\ app_hist = InitAppHist

NextOpenClose ==
    \/ WindowOpen
    \/ WindowClose

SpecOpenClose == InitOpenClose /\ [][NextOpenClose]_vars

\* C15: from every window state in which it is called (opened, never
\* opened, already closed) close completes and leaves the terminal on the
\* main screen with the cursor visible and raw mode disabled; a close
\* after an open returns the terminal to the modes it had before the open.
C15_CloseUnconditional ==
    win_hist.lastOp = "close" =>
        /\ ~win_hist.close_panicked
        /\ tty = TtyOfShell
        /\ reader = "None"

(***************************************************************************)
(* drawing.rs: the methods of a Pencil, called in any order                *)
(***************************************************************************)
\* methods called on one Pencil
MaxPencilOps == 2

\* the Canvas the Pencil is made for
CanvasSizes == {Vec2_xy(0, 2), Vec2_xy(3, 2), Vec2_xy(4, 3)}

\* the position arguments
PencilPositions == {Vec2_xy(x, y) : x \in {-1, 0, 1, 3}, y \in {0, 1}}

\* the arguments of set_origin
PencilOrigins == {Vec2_zero, Vec2_xy(1, 1)}

\* the dimension arguments of draw_filled_rect
RectDimensions ==
    {Vec2_xy(0, 1), Vec2_xy(1, 1), Vec2_xy(2, 2), Vec2_xy(2, -1), Vec2_xy(-1, 2)}

\* the size arguments of draw_vline
LineSizes == {-1, 0, 2}

\* the text arguments of draw_text
Texts == {<<>>, <<"a">>, <<"a", "b">>, <<"a", "b", "c">>}

\* the receiver at the start of a call
Receiver == [canvas |-> canvas, pen |-> pen, panic |-> FALSE]

\* a method was called and left the receiver as st
PencilCalled(op, st, position, dimension, text, value) ==
    /\ ~pen_hist.panicked
    /\ pen_hist.ops < MaxPencilOps
    /\ canvas' = st.canvas
    /\ pen' = st.pen
    /\ pen_hist' = [op |-> op,
                    ops |-> pen_hist.ops + 1,
                    position |-> position,
                    dimension |-> dimension,
                    text |-> text,
                    value |-> value,
                    origin_before |-> pen.origin,
                    before |-> canvas.data,
                    panicked |-> st.panic]
    /\ UNCHANGED <<kb_vars, term_vars, app_vars, vec2, direction, sp_hist>>

PencilSetOrigin(position) ==
    PencilCalled("set_origin", Pencil_set_origin(Receiver, position),
                 position, Vec2_zero, <<>>, " ")

PencilSetForeground(color) ==
    PencilCalled("set_foreground", Pencil_set_foreground(Receiver, color),
                 Vec2_zero, Vec2_zero, <<>>, " ")

PencilDrawChar(value, position) ==
    PencilCalled("draw_char", Pencil_draw_char(Receiver, value, position),
                 position, Vec2_zero, <<>>, value)

PencilDrawText(text, position) ==
    PencilCalled("draw_text", Pencil_draw_text(Receiver, text, position),
                 position, Vec2_zero, text, " ")

PencilDrawVline(value, position, size) ==
    PencilCalled("draw_vline", Pencil_draw_vline(Receiver, value, position, size),
                 position, Vec2_y(size), <<>>, value)

PencilDrawFilledRect(fill_value, position, dimension) ==
    PencilCalled("draw_filled_rect",
                 Pencil_draw_filled_rect(Receiver, fill_value, position, dimension),
                 position, dimension, <<>>, fill_value)

InitPencil ==
    /\ KeyboardNew
    /\ TerminalIdle
    /\ AppIdle
    /\ SpatialIdle
    /\ \E size \in CanvasSizes : canvas = Canvas_new(size, VisualElementNew)
    /\ pen = Pencil_new(canvas)
    /\ pen_hist = InitPencilHist

NextPencil ==
    \/ \E position \in PencilOrigins : PencilSetOrigin(position)
    \/ PencilSetForeground("Red")
    \/ \E position \in PencilPositions : PencilDrawChar("o", position)
    \/ \E text \in Texts, position \in PencilPositions : PencilDrawText(text, position)
    \/ \E position \in PencilPositions, size \in LineSizes :
           PencilDrawVline("|", position, size)
    \/ \E position \in PencilPositions, dimension \in RectDimensions :
           PencilDrawFilledRect("#", position, dimension)

SpecPencil == InitPencil /\ [][NextPencil]_vars

\* the cells of the Canvas
CanvasCells ==
    {Vec2_xy(x, y) : x \in 0..(canvas.dimension.x - 1), y \in 0..(canvas.dimension.y - 1)}

\* C16: draw_filled_rect(fill, position, dimension) writes the fill
\* character to exactly the cells of the Canvas inside the rectangle whose
\* top-left corner is origin + position and whose size is dimension, leaves
\* every other cell as it was, and leaves the origin as it was.
C16_FilledRectExact ==
    pen_hist.op = "draw_filled_rect" =>
        LET corner == Vec2_add(pen_hist.origin_before, pen_hist.position)
            InRect(c) == /\ corner.x <= c.x /\ c.x < corner.x + pen_hist.dimension.x
                         /\ corner.y <= c.y /\ c.y < corner.y + pen_hist.dimension.y
        IN  /\ ~pen_hist.panicked
            /\ pen.origin = pen_hist.origin_before
            /\ \A c \in CanvasCells :
                   IF InRect(c)
                   THEN canvas.data[Canvas_index(canvas, c)].value = pen_hist.value
                   ELSE canvas.data[Canvas_index(canvas, c)] =
                            pen_hist.before[Canvas_index(canvas, c)]

\* C17: draw_text(text, position) draws the i-th character of text (counted
\* from 0) at (origin.x + position.x + i, origin.y + position.y), for every
\* Canvas width, width 0 included, and every position; a character that
\* falls outside the Canvas is skipped, without an error, and no other cell
\* changes.
C17_TextLeftToRight ==
    pen_hist.op = "draw_text" =>
        LET start == Vec2_add(pen_hist.origin_before, pen_hist.position)
            At(c) == {i \in 1..Len(pen_hist.text) :
                          c = Vec2_xy(start.x + (i - 1), start.y)}
        IN  /\ ~pen_hist.panicked
            /\ \A c \in CanvasCells :
                   IF At(c) /= {}
                   THEN \A i \in At(c) :
                            canvas.data[Canvas_index(canvas, c)].value = pen_hist.text[i]
                   ELSE canvas.data[Canvas_index(canvas, c)] =
                            pen_hist.before[Canvas_index(canvas, c)]

(***************************************************************************)
(* spatial.rs: the conversions between Direction and Vec2                  *)
(***************************************************************************)
\* the small components of the Vec2 handed to try_from
MaxCoord == 2

\* the components: the small ones and the ends of i32
Coords == (-MaxCoord..MaxCoord) \cup {I32_MAX, -I32_MAX, -I32_MAX - 1}

Vec2Values == {Vec2_xy(x, y) : x \in Coords, y \in Coords}

\* Vec2::from(direction)
Vec2From ==
    /\ direction.kind = "Ok"
    /\ vec2' = Vec2_from(direction.v)
    /\ sp_hist' = [sp_hist EXCEPT !.op = "from",
                                  !.dir_in = direction.v,
                                  !.chained = FALSE]
    /\ UNCHANGED <<kb_vars, term_vars, app_vars, canvas, pen, pen_hist, direction>>

\* Direction::try_from(vec2)
DirectionTryFrom ==
    /\ direction' = Direction_try_from(vec2)
    /\ sp_hist' = [sp_hist EXCEPT !.op = "try_from",
                                  !.vec_in = vec2,
                                  !.chained = (sp_hist.op = "from")]
    /\ UNCHANGED <<kb_vars, term_vars, app_vars, canvas, pen, pen_hist, vec2>>

InitSpatial ==
    /\ KeyboardNew
    /\ TerminalIdle
    /\ AppIdle
    /\ PencilIdle
    /\ vec2 \in Vec2Values
    /\ \E d \in Directions : direction = Ok(d)
    /\ sp_hist = InitSpatialHist

NextSpatial == Vec2From \/ DirectionTryFrom

SpecSpatial == InitSpatial /\ [][NextSpatial]_vars

NotForwarded ==
    {n \in ObsIds : kb_hist.obs[n].fate \in {"pending", "dropped"}}

\* C19: when the correlation stage has evaluated the pending list, every
\* signal whose arrival instant differs from last_input_timestamp by at
\* most 20 ms, in either direction, has been forwarded to the public stream
\* and is off the pending list: none was dropped and none is still
\* pending, however long after its arrival the evaluation took place.
C19_CorrelatedIsForwarded ==
    acc_pc = "recv" =>
        \A n \in NotForwarded :
            ~retain_correlated(kb_hist.obs[n].arrival, last_input_timestamp)

\* C20: every transition the device-state observer derives, a release as
\* much as a press, is appended to the pending list with its arrival
\* instant and reaches the public stream only through the accept decision
\* of the correlation stage: every signal on the public stream was
\* forwarded by it.
C20_OnlyThroughCorrelation ==
    \A i \in 1..Len(event_channel) :
        kb_hist.obs[event_channel[i].obs].fate = "forwarded"

(***************************************************************************)
(* Claims about the ordering of the two observers                          *)
(***************************************************************************)
\* the places of the public stream that hold the signal of observation n
StreamPlaces(n) == {j \in 1..Len(event_channel) : event_channel[j].obs = n}

\* C21: signals of one key are never misordered on the public stream: under
\* every interleaving of the two observer threads, a Released(k) the device
\* observer produced after a Pressed(k) is not available to the consumer
\* before that Pressed(k): when the Released is on the stream, the Pressed
\* of the same hold has been forwarded and is not behind it.
C21_ReleasedAfterItsPress ==
    \A i \in 1..Len(event_channel) :
        event_channel[i].kind = "Released" =>
            /\ kb_hist.obs[event_channel[i].press].fate = "forwarded"
            /\ \A j \in StreamPlaces(event_channel[i].press) : j < i

\* C22: in every reachable state, under every interleaving of Drop with the
\* two observer loops, an observer that sends on a channel finds the
\* receiver of that channel alive: when the event_thread is in its loop
\* body with a press to send on acc_sender, the acc_thread, which owns
\* acc_receiver, has not returned.  (event_receiver is a field of Keyboard
\* and outlives both joins of drop.)
C22_SendFindsReceiver ==
    (/\ ev_pc = "body"
     /\ process_pressed_event(device_keys, last_device_state) /= <<>>) =>
        acc_pc /= "exited"

\* no signal of key k is in flight and none is owed: the event_thread has
\* seen that k is up, and neither channel nor the pending list holds a
\* signal of k, so without a further transition of k no consume call finds
\* a signal of k any more
Settled(k) ==
    /\ k \notin {transform_device_key(kc) : kc \in device_keys \cup last_device_state}
    /\ \A i \in 1..Len(acc_channel) : acc_channel[i].key /= k
    /\ \A i \in 1..Len(event_accumulator) : event_accumulator[i].sig.key /= k
    /\ \A i \in 1..Len(event_channel) : event_channel[i].key /= k

\* C23: no stuck keys.  A key whose press was accepted and which was
\* physically released after that, with no further transition of it, is
\* out of get_keys_down once the consume_key_events calls have drained its
\* signals, wherever those calls fall relative to the arrival of its
\* Pressed and Released on the public stream; no signal of it being left,
\* it stays out.
C23_NoStuckKeys ==
    \A k \in MappedKeys :
        (kb_hist.upAfterAccept[k] /\ Settled(k)) => k \notin DOMAIN state

\* A was accepted, went up, its Pressed and its Released were drained by
\* two different consume calls, and it has left the down-map
C23_Witness ==
    /\ kb_hist.upAfterAccept["A"]
    /\ Settled("A")
    /\ "A" \notin DOMAIN state
    /\ \E p, r \in ObsIds :
           /\ kb_hist.obs[p].kind = "Pressed" /\ kb_hist.obs[p].delivered = 1
           /\ kb_hist.obs[r].kind = "Released" /\ kb_hist.obs[r].press = p
           /\ kb_hist.obs[r].delivered = 1
           /\ Len(last_key_events) = 1 /\ last_key_events[1].obs = r

(***************************************************************************)
(* Claims about consume_key_events                                         *)
(***************************************************************************)
\* the places of the drained stream that hold a signal of key k
LogPlaces(k) == {i \in 1..Len(cs_hist.log) : cs_hist.log[i][2] = k}

\* the most recent signal of k among all signals drained so far is Pressed
LastDrainedIsPressed(k) ==
    /\ LogPlaces(k) /= {}
    /\ cs_hist.log[CHOOSE i \in LogPlaces(k) : \A j \in LogPlaces(k) : j <= i][1] = "Pressed"

\* C24: after any consume_key_events call, every key whose most recent
\* signal on the public stream, among all signals drained so far in stream
\* order, is Pressed is in the down-map, also when the key was already down
\* and its Released and the following Pressed were drained by one call.
C24_LastPressedIsDown ==
    \A k \in MappedKeys : LastDrainedIsPressed(k) => k \in DOMAIN state

\* how many times x occurs in seq
Occurrences(seq, x) == Cardinality({i \in 1..Len(seq) : seq[i] = x})

\* C25: consume_key_events is edge-triggered.  The batch holds Pressed(k)
\* only when the call took k from not-down to down, and then once: a
\* Pressed for a key that was already down is suppressed and leaves the
\* stamp of k as it was.  It holds Released(k) only when the call took k
\* from down to not-down, and then once: a Released for a key that is not
\* down is ignored.
C25_EdgeTriggered ==
    \A k \in MappedKeys :
        LET wasDown == k \in DOMAIN cs_hist.stateBefore
            isDown == k \in DOMAIN state
            gotPressed == <<"Pressed", k>> \in Range(cs_hist.drained)
            gotReleased == <<"Released", k>> \in Range(cs_hist.drained)
            nPressed == Occurrences(last_key_events_view, <<"Pressed", k>>)
            nReleased == Occurrences(last_key_events_view, <<"Released", k>>)
        IN  /\ nPressed <= 1 /\ nReleased <= 1
            /\ nPressed = 1 <=> (~wasDown /\ gotPressed)
            /\ nReleased = 1 <=> (gotReleased /\ (wasDown \/ gotPressed))
            /\ nReleased = 1 => ~isDown
            /\ (wasDown /\ isDown) => state[k] = cs_hist.stateBefore[k]
            /\ (~wasDown /\ ~gotPressed) => ~isDown
            /\ isDown <=> ((wasDown \/ gotPressed) /\ ~gotReleased)

\* A was down with stamp 0; the call drained a second Pressed(A) and a
\* Released(B) for B not down: the batch is empty and the down-map as before
C25_Witness ==
    /\ cs_hist.stateBefore = ("A" :> 0)
    /\ cs_hist.drained = <<<<"Pressed", "A">>, <<"Released", "B">>>>
    /\ last_key_events_view = <<>>
    /\ state = ("A" :> 0)
    /\ last_key_stamp = 1

\* ---- specification of one frame: the loop with a drawing callback -------
\* The frame_actions of this specification draw on the grid at every step,
\* while the two event threads deliver signals of key "A" at any moment.
MaxFrames == 2           \* the last step at which a frame_action stops
MaxFrameKeys == 2        \* signals delivered while the loop runs

DrawingFrameActions ==
    {[stop_on |-> {s}, panic_on |-> P, draw_on |-> 0..MaxFrames] :
        s \in 1..MaxFrames, P \in {{}, {1}}}

\* a signal of key "A" reaches event_receiver while the loop runs
FrameKeySend(kind) ==
    /\ cs_hist.sent < MaxFrameKeys
    /\ StreamSend(kind, "A")

InitFrame ==
    /\ KeyboardNew
    /\ DrawingIdle
    /\ WindowNew
    /\ \E frame_action \in DrawingFrameActions : AppConfig(10, frame_action)

NextFrame ==
    \/ \E kind \in {"Pressed", "Released"} : FrameKeySend(kind)
    \/ AppStart
    \/ AppOpen
    \/ AppCheck
    \/ AppClear
    \/ AppConsume
    \/ AppCallbackReturns(40000000)
    \/ AppCallbackPanics(40000000)
    \/ \E d \in PresentDurations : AppDraw(d)
    \/ AppAccount
    \/ AppSleep
    \/ AppClose
    \/ AppPrompt
    \/ \E outcome \in {"line", "eof", "error"} : AppAck(outcome)
    \/ AppRecover

SpecFrame == InitFrame /\ [][NextFrame]_vars

\* the steps of one iteration of the loop, lines 124 to 135
IterationOrder == <<"clear", "consume", "callback", "draw", "account", "sleep">>

IsPrefix(s, t) == Len(s) <= Len(t) /\ s = SubSeq(t, 1, Len(s))

BudgetKnown == app_pc \notin {"start", "panicked"}

\* an iteration has run to its end and the next has not begun
IterationDone == app_pc = "check" /\ Len(app_hist.iter) >= 5

\* C27: the frame budget is floor(1_000_000_000 / fps) ns; an iteration whose
\* elapsed time dt is at most the budget sleeps exactly budget - dt, one whose
\* dt exceeds it does not sleep, so two consecutive iterations start at least
\* one budget apart; a frame rate above 1_000_000_000 gives the budget 0 and
\* no waiting at all.
C27_FramePacing ==
    /\ BudgetKnown =>
          /\ expected_duration = NANOS_PER_SEC \div config_fps
          /\ config_fps = 10 => expected_duration = 100000000
          /\ config_fps > NANOS_PER_SEC => (expected_duration = 0 /\ app_hist.slept = 0
                                            /\ app_hist.last_sleep = 0)
    /\ app_pc = "sleep" => dt <= expected_duration
    /\ IterationDone =>
          /\ IF dt <= expected_duration
             THEN /\ Len(app_hist.iter) = 6
                  /\ app_hist.last_sleep = expected_duration - dt
             ELSE /\ Len(app_hist.iter) = 5
                  /\ app_hist.last_sleep = 0
          /\ clock - frame_start >= expected_duration
          /\ clock - frame_start = dt + app_hist.last_sleep
    /\ (app_pc = "clear" /\ app_hist.iters >= 2) =>
          frame_start - app_hist.prev_start >= expected_duration

\* the second iteration of a loop of 10 frames a second took 50 ms and slept
\* the other 50 ms
C27_Witness ==
    /\ IterationDone
    /\ config_fps = 10
    /\ app_hist.iters = 2
    /\ dt = 50000000
    /\ app_hist.last_sleep = 50000000
    /\ frame_start - app_hist.prev_start >= 100000000

\* an invocation of frame_action has called State::stop and returned
StopCalled == app_hist.stop_call /= 0

\* C28: the loop reads the stop flag only at the top of an iteration: the
\* iteration whose callback called stop() still presents its frame and
\* increments step, no later invocation of the callback happens in that run,
\* and the loop then ends and closes the window exactly once.
C28_StopSampledAtTop ==
    StopCalled =>
        /\ ~running
        /\ app_hist.calls = app_hist.stop_call
        /\ app_hist.iters = app_hist.stop_call
        /\ app_pc \in {"draw", "account", "sleep", "check", "close", "returned"}
        /\ app_pc = "draw" =>
              (app_hist.presents = app_hist.stop_call - 1 /\ step = app_hist.stop_call - 1)
        /\ app_pc = "account" =>
              (app_hist.presents = app_hist.stop_call /\ step = app_hist.stop_call - 1)
        /\ app_pc \in {"sleep", "check", "close", "returned"} =>
              (app_hist.presents = app_hist.stop_call /\ step = app_hist.stop_call)
        /\ app_hist.closes = IF app_pc = "returned" THEN 1 ELSE 0
        /\ app_pc = "returned" => (reader = "None" /\ tty = TtyOfShell)
        /\ app_pc /= "returned" => reader = "Some"

\* the second invocation called stop(): two frames were presented, step is
\* 2 and the window is closed
C28_Witness ==
    /\ app_pc = "returned"
    /\ app_hist.stop_call = 2
    /\ app_hist.calls = 2
    /\ app_hist.presents = 2
    /\ step = 2
    /\ app_hist.closes = 1

\* the iterations that ran to the end of line 132
CompletedIterations ==
    IF app_hist.iters > 0 /\ Len(app_hist.iter) < 5
    THEN app_hist.iters - 1
    ELSE app_hist.iters

\* C29: State::step counts the completed iterations: it starts at 0, is
\* incremented once per iteration after the present, so that the n-th
\* invocation of the callback reads n - 1, and it never decreases.
C29_StepCountsIterations ==
    /\ step = CompletedIterations
    /\ app_pc \in {"start", "open"} => step = 0
    /\ app_pc = "callback" => step = app_hist.calls
    /\ app_hist.calls > 0 => app_hist.cb_step = app_hist.calls - 1
    /\ app_hist.presents = step + (IF app_pc = "account" THEN 1 ELSE 0)
    /\ step >= app_hist.cb_step

\* the third invocation has read step 2 and its iteration is being finished
C29_Witness ==
    /\ app_pc = "sleep"
    /\ app_hist.calls = 3
    /\ app_hist.cb_step = 2
    /\ step = 3
    /\ app_hist.presents = 3

\* the signals of a batch were all queued on the public stream when the call
\* began, and the call leaves the stream empty
DrainsOnlyQueued ==
    /\ event_channel' = <<>>
    /\ \A i \in 1..Len(last_key_events') :
          \E j \in 1..Len(event_channel) : event_channel[j] = last_key_events'[i]

\* C30: consume_key_events never blocks: it can be taken in every state of
\* the two observer threads, with or without queued signals, and what it
\* delivers is only what was already queued on the public stream.
C30_ConsumeNeverBlocks ==
    /\ [](ENABLED KbConsume)
    /\ [][KbConsume => DrainsOnlyQueued]_vars

\* a call has returned a Pressed while the accumulator still holds a press
\* on probation and the accumulator thread waits in recv_timeout
C30_Witness ==
    /\ \E i \in 1..Len(last_key_events) : last_key_events[i].kind = "Pressed"
    /\ event_channel = <<>>
    /\ event_accumulator /= <<>>
    /\ acc_pc = "recv"

\* C31: the down-map and the per-frame batch are changed only by
\* consume_key_events: no step of the device observer or of the correlation
\* stage changes either, and the queries (get_keys_down, last_key_events)
\* only read them, so what the callback reads is stable between two calls.
C31_OnlyConsumeMutates ==
    [][(state' /= state \/ last_key_events' /= last_key_events
        \/ get_keys_down' /= get_keys_down
        \/ last_key_events_view' /= last_key_events_view) => KbConsume]_vars

\* after a call that returned a batch and left a key down, both observers
\* have gone on: a press is pending and a signal is queued again
C31_Witness ==
    /\ state /= << >>
    /\ last_key_events /= <<>>
    /\ event_channel /= <<>>
    /\ event_accumulator /= <<>>

\* the signals on the pending list
PendingIds(acc) == {acc[i].sig.obs : i \in 1..Len(acc)}

\* C32: bounded pending time.  An evaluation of the pending list removes
\* every signal that arrived more than 20 ms before it, forwarded or dropped,
\* so after each evaluation the list holds only signals that arrived within
\* the last window and no signal outlives the first evaluation that comes
\* more than 20 ms after its arrival.
C32_BoundedPending ==
    [][(acc_pc = "retain" /\ acc_pc' = "recv") =>
          /\ \A i \in 1..Len(event_accumulator') :
                now - event_accumulator'[i].instant <= KEY_EVENT_FOCUS_DELAY_MS
          /\ \A i \in 1..Len(event_accumulator) :
                now - event_accumulator[i].instant > KEY_EVENT_FOCUS_DELAY_MS =>
                    /\ event_accumulator[i].sig.obs \notin PendingIds(event_accumulator')
                    /\ kb_hist'.obs[event_accumulator[i].sig.obs].fate
                          \in {"forwarded", "dropped"}
          /\ PendingIds(event_accumulator') \subseteq PendingIds(event_accumulator)]_vars

\* an evaluation has dropped a press that arrived more than a window before
\* it, and kept a younger one
C32_Witness ==
    /\ acc_pc = "recv"
    /\ event_accumulator /= <<>>
    /\ \E n \in ObsIds :
          /\ kb_hist.obs[n].fate = "dropped"
          /\ now - kb_hist.obs[n].arrival > KEY_EVENT_FOCUS_DELAY_MS

\* the correlation stage has observed no terminal input yet
NoInputObserved == kb_hist.focus_stamps = {}

\* C33: until the correlation stage has observed a terminal input, no press
\* derived by the device observer is forwarded to the public stream, however
\* early it arrives: last_input_timestamp starts more than one window
\* before every arrival instant.
C33_NoForwardBeforeInput ==
    NoInputObserved =>
        /\ \A n \in ObsIds :
              kb_hist.obs[n].kind = "Pressed" =>
                  /\ kb_hist.obs[n].fate /= "forwarded"
                  /\ kb_hist.obs[n].fate /= "sent" =>
                        kb_hist.obs[n].arrival - last_input_timestamp
                            > KEY_EVENT_FOCUS_DELAY_MS
        /\ \A i \in 1..Len(event_channel) : event_channel[i].kind /= "Pressed"
        /\ \A i \in 1..Len(last_key_events) : last_key_events[i].kind /= "Pressed"
        /\ state = << >>

\* a press that arrived at the instant the engine started was dropped, no
\* terminal input having been observed
C33_Witness ==
    /\ NoInputObserved
    /\ \E n \in ObsIds :
          /\ kb_hist.obs[n].kind = "Pressed"
          /\ kb_hist.obs[n].fate = "dropped"
          /\ kb_hist.obs[n].arrival = 0

\* C34: the shape of a batch.  Every batch consume_key_events returns holds
\* at most one Pressed(k) and at most one Released(k) for each key k, and
\* every Pressed entry comes before every Released entry.
C34_BatchShape ==
    /\ \A k \in MappedKeys :
          /\ Occurrences(last_key_events_view, <<"Pressed", k>>) <= 1
          /\ Occurrences(last_key_events_view, <<"Released", k>>) <= 1
    /\ \A i, j \in 1..Len(last_key_events_view) :
          (last_key_events_view[i][1] = "Released"
           /\ last_key_events_view[j][1] = "Pressed") => j < i

\* the call drained Released(A), Pressed(A), Pressed(A) with A not down and
\* returned Pressed(A) once, before Released(A)
C34_Witness ==
    /\ cs_hist.stateBefore = << >>
    /\ cs_hist.drained = <<<<"Released", "A">>, <<"Pressed", "A">>, <<"Pressed", "A">>>>
    /\ last_key_events_view = <<<<"Pressed", "A">>, <<"Released", "A">>>>

\* C35: the transition of the down-map.  After a consume_key_events call a
\* key is down exactly when it was down before the call or Pressed(k) is in
\* the returned batch, and Released(k) is not in the returned batch; a key
\* no drained signal names keeps its membership and its stamp.
C35_DownMapTransition ==
    \A k \in MappedKeys :
        LET wasDown == k \in DOMAIN cs_hist.stateBefore
            isDown == k \in DOMAIN state
            pressedInBatch == <<"Pressed", k>> \in Range(last_key_events_view)
            releasedInBatch == <<"Released", k>> \in Range(last_key_events_view)
            drainedFor == \E i \in 1..Len(cs_hist.drained) : cs_hist.drained[i][2] = k
        IN  /\ isDown <=> ((wasDown \/ pressedInBatch) /\ ~releasedInBatch)
            /\ ~drainedFor =>
                  /\ isDown <=> wasDown
                  /\ isDown => state[k] = cs_hist.stateBefore[k]
                  /\ ~pressedInBatch /\ ~releasedInBatch

\* A and B were down; the call drained Released(A) and Pressed(C): A left
\* the down-map, C entered it, and B kept its place and its stamp
C35_Witness ==
    /\ cs_hist.stateBefore = ("A" :> 0) @@ ("B" :> 1)
    /\ cs_hist.drained = <<<<"Released", "A">>, <<"Pressed", "C">>>>
    /\ state = ("B" :> 1) @@ ("C" :> 2)
    /\ last_key_events_view = <<<<"Pressed", "C">>, <<"Released", "A">>>>

(***************************************************************************)
(* Claims about what one Window::update shows on the terminal              *)
(***************************************************************************)
\* the terminal's weight and colours before the first command of an update
\* reaches it: whatever an earlier frame left
TerminalUnset == [weight |-> "Unset", fg |-> -1, bg |-> -1]

\* the terminal's weight and colours after one command
TerminalAfter(t, c) ==
    CASE c.cmd = "SetAttribute" -> [t EXCEPT !.weight = c.attr]
      [] c.cmd = "SetForegroundColor" -> [t EXCEPT !.fg = c.code]
      [] c.cmd = "SetBackgroundColor" -> [t EXCEPT !.bg = c.code]
      [] OTHER -> t

RECURSIVE TerminalShows(_, _)
\* the characters a terminal in state t shows for a command sequence, each
\* with the weight and colours current when its Output arrives
TerminalShows(cmds, t) ==
    IF cmds = <<>> THEN <<>>
    ELSE (IF Head(cmds).cmd = "Output"
          THEN <<[value |-> Head(cmds).value, weight |-> t.weight,
                  fg |-> t.fg, bg |-> t.bg]>>
          ELSE <<>>)
         \o TerminalShows(Tail(cmds), TerminalAfter(t, Head(cmds)))

\* how a grid cell is meant to be shown
CellShown(element) ==
    [value |-> element.value, weight |-> style_impl(element.style),
     fg |-> code(element.foreground), bg |-> code(element.background)]

\* C36: fidelity of the diff pass.  A terminal that interprets the commands
\* of one Window::update shows exactly width * height characters in
\* row-major order, the i-th with the weight, foreground and background of
\* the i-th grid cell, whatever the grid holds and whatever the default
\* cell is, a Bold default cell included.
C36_DiffPassFidelity ==
    win_hist.lastOp = "update" =>
        LET shown == TerminalShows(win_hist.out, TerminalUnset)
        IN  /\ Len(shown) = surface.dimension[1] * surface.dimension[2]
            /\ Len(shown) = Len(surface.data)
            /\ \A i \in 1..Len(shown) : shown[i] = CellShown(surface.data[i])

RECURSIVE TerminalEnd(_, _)
\* the terminal's weight and colours after a command sequence
TerminalEnd(cmds, t) ==
    IF cmds = <<>> THEN t
    ELSE TerminalEnd(Tail(cmds), TerminalAfter(t, Head(cmds)))

\* the reset the claim describes: the weight and the colours of the default
\* cell, then the cursor to the origin
ResetToDefault(s) ==
    <<[cmd |-> "SetAttribute", attr |-> style_impl(s.default_element.style)],
      [cmd |-> "SetForegroundColor", code |-> code(s.default_element.foreground)],
      [cmd |-> "SetBackgroundColor", code |-> code(s.default_element.background)],
      [cmd |-> "MoveTo", col |-> 0, row |-> 0]>>

\* C38: each present starts by resetting the weight and the colours to the
\* default cell's and moving the cursor to the origin, and ends with the
\* same reset: after every Window::update the terminal's weight and colours
\* are the default cell's and the cursor is at (0, 0), whatever the grid
\* contained.
C38_ResetAroundPresent ==
    win_hist.lastOp = "update" =>
        LET out == win_hist.out
            end == TerminalEnd(out, TerminalUnset)
        IN  /\ Len(out) >= 8
            /\ SubSeq(out, 1, 4) = ResetToDefault(surface)
            /\ SubSeq(out, Len(out) - 3, Len(out)) = ResetToDefault(surface)
            /\ end.weight = style_impl(surface.default_element.style)
            /\ end.fg = code(surface.default_element.foreground)
            /\ end.bg = code(surface.default_element.background)
            /\ out[Len(out)] = [cmd |-> "MoveTo", col |-> 0, row |-> 0]

\* C39: the computation of the frame budget at the start of App::run fails
\* for no frame rate a Config can hold, 0 and the largest u32 included: run
\* never panics before the window is opened.
C39_BudgetNeverFails ==
    app_pc = "panicked" => app_hist.opened

====
